---------------------------- MODULE Spec2Model ----------------------------
(***************************************************************************)
(* Market-aggregation core of the Snow Oracle Ball terminal:               *)
(*   server/api-clients.ts  - Kalshi adapter, merged cache, readers        *)
(*   server/polymarket-ws   - Polymarket adapters, marketCache, live feed  *)
(*                            (src/unnamed/part_009)                       *)
(*                                                                         *)
(* Prices are integers in thousandths (0.42 is 420, 1 is 1000).  A value   *)
(* parseFloat cannot read, or a missing one, is NaN.                       *)
(*                                                                         *)
(* Node runs one callback at a time: one action is one callback (a request *)
(* entering fetchAllMarkets, an HTTP response being consumed, a socket     *)
(* event, a timer) together with every promise continuation that becomes   *)
(* runnable by it, since those run before the next callback.               *)
(***************************************************************************)
EXTENDS Integers, Sequences, FiniteSets, TLC

\* ----------------------------------------------------------------- bounds
\* concurrent fetchAllMarkets calls
MaxReq == 2
\* clock readings after the first (one reading every TICK ms)
MaxTicks == 2
\* socket objects that are alive at the same time
MaxSockets == 2
\* reconnect timers pending at the same time
MaxTimers == 2

\* ------------------------------------------------------- program constants
CACHE_TTL == 60000
FULL_REFRESH_INTERVAL == 30000
MAX_RECONNECT_ATTEMPTS == 5
RECONNECT_DELAY == 5000
\* the distance between two readings of Date.now() in the model
TICK == 30000

NaN == 999999
NULL == 0
\* a price too small to show in thousandths, such as 1e-17: it is a number
\* above 0, and 1 - 1e-17 is 1 in the double arithmetic of JavaScript
TINY == 999998

\* !isNaN(p) && p > 0 && p < 1
Inside(p) == p = TINY \/ (p # NaN /\ p > 0 /\ p < 1000)

\* 1 - p, for a price p inside (0, 1)
OneMinus(p) == IF p = TINY THEN 1000 ELSE 1000 - p

\* x || d of JavaScript on numbers: 0 and NaN are falsy
OrDefault(x, d) == IF x = NaN \/ x = 0 THEN d ELSE x

Min(a, b) == IF a < b THEN a ELSE b
Max(a, b) == IF a > b THEN a ELSE b

\* the price as it is, not clamped
Unclamped(p) == p

\* Math.max(0.01, Math.min(0.99, p))
ClampPrice(p) == Max(10, Min(990, p))

\* ------------------------------------------------------------------ text
\* Titles and descriptions are sequences of characters.
ToLower(c) ==
    CASE c = "A" -> "a" [] c = "B" -> "b" [] c = "C" -> "c" [] c = "D" -> "d"
      [] c = "E" -> "e" [] c = "F" -> "f" [] c = "G" -> "g" [] c = "H" -> "h"
      [] c = "I" -> "i" [] c = "J" -> "j" [] c = "K" -> "k" [] c = "L" -> "l"
      [] c = "M" -> "m" [] c = "N" -> "n" [] c = "O" -> "o" [] c = "P" -> "p"
      [] c = "Q" -> "q" [] c = "R" -> "r" [] c = "S" -> "s" [] c = "T" -> "t"
      [] c = "U" -> "u" [] c = "V" -> "v" [] c = "W" -> "w" [] c = "X" -> "x"
      [] c = "Y" -> "y" [] c = "Z" -> "z"
      [] OTHER -> c

toLowerCase(s) == [i \in 1..Len(s) |-> ToLower(s[i])]

\* String.prototype.includes
includes(text, kw) ==
    \E i \in 0..(Len(text) - Len(kw)) :
        \A j \in 1..Len(kw) : text[i + j] = kw[j]

includesAny(text, kws) == \E kw \in kws : includes(text, kw)

CryptoWords ==
    { <<"b","i","t","c","o","i","n">>, <<"c","r","y","p","t","o">>,
      <<"e","t","h","e","r","e","u","m">>, <<"b","t","c">>, <<"e","t","h">>,
      <<"s","o","l","a","n","a">> }
PoliticsWords ==
    { <<"p","r","e","s","i","d","e","n","t">>, <<"e","l","e","c","t","i","o","n">>,
      <<"c","o","n","g","r","e","s","s">>, <<"t","r","u","m","p">>,
      <<"b","i","d","e","n">>, <<"p","o","l","i","t","i","c","a","l">> }
SportsWords ==
    { <<"s","u","p","e","r"," ","b","o","w","l">>, <<"n","f","l">>, <<"n","b","a">>,
      <<"c","h","a","m","p","i","o","n","s","h","i","p">>,
      <<"w","o","r","l","d"," ","c","u","p">>, <<"o","l","y","m","p","i","c">> }
EconomyWords ==
    { <<"i","n","f","l","a","t","i","o","n">>, <<"f","e","d">>,
      <<"i","n","t","e","r","e","s","t"," ","r","a","t","e">>, <<"g","d","p">>,
      <<"e","c","o","n","o","m","y">>, <<"r","e","c","e","s","s","i","o","n">> }
TechWords ==
    { <<"a","i">>, <<"o","p","e","n","a","i">>, <<"t","e","s","l","a">>,
      <<"a","p","p","l","e">>, <<"g","o","o","g","l","e">>, <<"t","e","c","h">> }

\* polymarket-ws: mapCategory(title, description)
mapCategory(title, description) ==
    LET text == toLowerCase(title \o <<" ">> \o description)
    IN  IF includesAny(text, CryptoWords) THEN "crypto"
        ELSE IF includesAny(text, PoliticsWords) THEN "politics"
        ELSE IF includesAny(text, SportsWords) THEN "sports"
        ELSE IF includesAny(text, EconomyWords) THEN "economy"
        ELSE IF includesAny(text, TechWords) THEN "tech"
        ELSE "trending"

\* api-clients: mapKalshiCategory(market)
mapKalshiCategory(market) ==
    LET cat == toLowerCase(market.category)
        title == toLowerCase(market.title)
    IN  IF \/ includes(cat, <<"c","r","y","p","t","o">>)
           \/ includes(title, <<"b","i","t","c","o","i","n">>)
           \/ includes(title, <<"c","r","y","p","t","o">>)
        THEN "crypto"
        ELSE IF \/ includes(cat, <<"p","o","l","i","t","i","c">>)
                \/ includes(cat, <<"e","l","e","c","t","i","o","n">>)
                \/ includes(title, <<"p","r","e","s","i","d","e","n","t">>)
                \/ includes(title, <<"c","o","n","g","r","e","s","s">>)
        THEN "politics"
        ELSE IF \/ includes(cat, <<"s","p","o","r","t">>)
                \/ includes(title, <<"s","u","p","e","r"," ","b","o","w","l">>)
                \/ includes(title, <<"c","h","a","m","p","i","o","n","s","h","i","p">>)
        THEN "sports"
        ELSE IF \/ includes(cat, <<"e","c","o","n">>)
                \/ includes(cat, <<"f","e","d">>)
                \/ includes(title, <<"i","n","f","l","a","t","i","o","n">>)
                \/ includes(title, <<"i","n","t","e","r","e","s","t"," ","r","a","t","e">>)
        THEN "economy"
        ELSE IF \/ includes(cat, <<"t","e","c","h">>)
                \/ includes(cat, <<"s","c","i","e","n","c","e">>)
                \/ includes(title, <<"a","i">>)
                \/ includes(title, <<"t","e","s","l","a">>)
        THEN "tech"
        ELSE "trending"


\* ---------------------------------------------------------------- Market
\* shared/schema: Market
Market(id, title, description, platform, category, yesPrice, noPrice, volume, resolutionDate) ==
    [ id |-> id, title |-> title, description |-> description, platform |-> platform,
      category |-> category, yesPrice |-> yesPrice, noPrice |-> noPrice,
      volume |-> volume, resolutionDate |-> resolutionDate ]

\* undefined, where a Market is expected
NoMarket == Market("", <<>>, <<>>, "", "", 0, 0, 0, "")

\* prices[i] of a JavaScript array read by parseFloat: NaN past the end
PriceAt(prices, i) == IF i <= Len(prices) THEN prices[i] ELSE NaN

\* Math.round of a non-negative volume given in tenths
Round(v) == (v + 5) \div 10

\* polymarket-ws: fetchAllPolymarketEvents, the body of the inner loop:
\* the Market built from one listing of one event
EventMarket(event, market) ==
    LET yesPrice == OrDefault(PriceAt(market.outcomePrices, 1), 500)
        noPrice == OrDefault(PriceAt(market.outcomePrices, 2), 1000 - yesPrice)
        volume == OrDefault(market.volume, 0)
        title == IF market.question # <<>> THEN market.question
                 ELSE IF event.title # <<>> THEN event.title
                 ELSE <<"U","n","t","i","t","l","e","d">>
    IN  Market("pm-" \o market.id, title, event.description, "polymarket",
               mapCategory(IF market.question # <<>> THEN market.question ELSE event.title,
                           event.description),
               ClampPrice(yesPrice), ClampPrice(noPrice), Round(volume), market.endDate)

\* polymarket-ws: fetchPolymarketMarketsDirect, the body of the loop
DirectMarket(market) ==
    LET yesPrice == OrDefault(PriceAt(market.outcomePrices, 1), 500)
        noPrice == OrDefault(PriceAt(market.outcomePrices, 2), 1000 - yesPrice)
        volume == OrDefault(market.volume, 0)
        title == IF market.question # <<>> THEN market.question
                 ELSE <<"U","n","t","i","t","l","e","d">>
    IN  Market("pm-" \o market.id, title, market.description, "polymarket",
               mapCategory(market.question, market.description),
               ClampPrice(yesPrice), ClampPrice(noPrice), Round(volume), market.endDate)

\* a + b of JavaScript when a side may be missing
Plus(a, b) == IF a = NaN \/ b = NaN THEN NaN ELSE a + b

\* api-clients: fetchKalshiMarkets, the body of map: bids and asks are cents
KalshiToMarket(market) ==
    LET yesSum == Plus(market.yes_bid, market.yes_ask)
        noSum == Plus(market.no_bid, market.no_ask)
        yesMid == IF yesSum = NaN THEN NaN ELSE yesSum * 5
        noMid == IF noSum = NaN THEN NaN ELSE noSum * 5
    IN  Market("kl-" \o market.ticker,
               IF market.title # <<>> THEN market.title
               ELSE <<"U","n","t","i","t","l","e","d"," ","M","a","r","k","e","t">>,
               market.subtitle, "kalshi", mapKalshiCategory(market),
               ClampPrice(OrDefault(yesMid, 500)), ClampPrice(OrDefault(noMid, 500)),
               OrDefault(market.volume, 0), market.close_time)

\* the listings of one event that the inner loop ingests, in order, each with
\* the slug it is indexed under ("" when the listing has none)
RECURSIVE EventListings(_, _)
EventListings(event, markets) ==
    IF markets = <<>> THEN <<>>
    ELSE LET market == Head(markets)
         IN  (IF ~market.active \/ market.closed THEN <<>>
              ELSE << [m |-> EventMarket(event, market), slug |-> market.slug] >>)
             \o EventListings(event, Tail(markets))

\* polymarket-ws: fetchAllPolymarketEvents, the records pushed by the two loops
RECURSIVE EventsMarkets(_)
EventsMarkets(events) ==
    IF events = <<>> THEN <<>>
    ELSE LET event == Head(events)
         IN  (IF ~event.active \/ event.closed THEN <<>>
              ELSE EventListings(event, event.markets))
             \o EventsMarkets(Tail(events))

\* polymarket-ws: fetchPolymarketMarketsDirect, the records pushed by the loop;
\* a listing whose outcomePrices string does not parse throws and is skipped
RECURSIVE DirectMarkets(_)
DirectMarkets(data) ==
    IF data = <<>> THEN <<>>
    ELSE LET market == Head(data)
         IN  (IF ~market.active \/ market.closed \/ market.malformed THEN <<>>
              ELSE << [m |-> DirectMarket(market), slug |-> market.slug] >>)
             \o DirectMarkets(Tail(data))

\* api-clients: fetchKalshiMarkets, filter then map
RECURSIVE KalshiMarkets(_)
KalshiMarkets(markets) ==
    IF markets = <<>> THEN <<>>
    ELSE LET market == Head(markets)
         IN  (IF market.status = "open" \/ market.status = "active"
              THEN << KalshiToMarket(market) >> ELSE <<>>)
             \o KalshiMarkets(Tail(markets))

\* ------------------------------------------------- what the sources answer
BtcUp == <<"B","t","c"," ","u","p">>
Rain == <<"R","a","i","n">>
FedCut == <<"F","e","d"," ","c","u","t">>
NoText == <<>>

RawPm(id, question, slug, outcomePrices, volume, closed) ==
    [ id |-> id, question |-> question, description |-> NoText, slug |-> slug,
      outcomePrices |-> outcomePrices, volume |-> volume, active |-> TRUE,
      closed |-> closed, malformed |-> FALSE, endDate |-> "2026-12-31" ]

RawEvent(title, markets) ==
    [ title |-> title, description |-> NoText, active |-> TRUE, closed |-> FALSE,
      markets |-> markets ]

RawKalshi(ticker, title, yes_bid, yes_ask, no_bid, no_ask, status) ==
    [ ticker |-> ticker, title |-> title, subtitle |-> NoText, category |-> NoText,
      yes_bid |-> yes_bid, yes_ask |-> yes_ask, no_bid |-> no_bid, no_ask |-> no_ask,
      volume |-> 700, close_time |-> "2026-06-30", status |-> status ]

\* a response: ok is false for a network failure, a non-2xx status or a body
\* that is not JSON
Failure == [ok |-> FALSE, body |-> <<>>]
Ok(body) == [ok |-> TRUE, body |-> body]

EventsResponses ==
    { Failure,
      Ok(<< RawEvent(BtcUp, << RawPm("1", BtcUp, "s1", <<600, 400>>, 12004, FALSE),
                               RawPm("3", Rain, "s3", <<200, 800>>, 10, FALSE) >>) >>),
      Ok(<< RawEvent(Rain, << RawPm("1", NoText, "s1", <<550>>, 12506, FALSE),
                              RawPm("3", Rain, "s3", <<200, 800>>, 10, TRUE) >>) >>) }

DirectResponses ==
    { Failure,
      Ok(<< RawPm("2", Rain, "s2", <<300, 650>>, NaN, FALSE) >>) }

KalshiResponses ==
    { Failure,
      Ok(<< RawKalshi("A", FedCut, 30, 34, 66, 70, "open") >>),
      Ok(<< RawKalshi("A", FedCut, 28, 30, NaN, NaN, "active"),
            RawKalshi("B", BtcUp, 60, 62, 38, 42, "open"),
            RawKalshi("C", Rain, 10, 12, 88, 90, "settled") >>) }

\* what each adapter makes of each response; a failed fetch is caught and
\* yields no record (polymarket-ws 138-142, 201-205; api-clients 81-84)
EventsResult == [response \in EventsResponses |->
                    IF response.ok THEN EventsMarkets(response.body) ELSE <<>>]
DirectResult == [response \in DirectResponses |->
                    IF response.ok THEN DirectMarkets(response.body) ELSE <<>>]
KalshiResult == [response \in KalshiResponses |->
                    IF response.ok THEN KalshiMarkets(response.body) ELSE <<>>]

\* api-clients: fallbackMarkets (titles and descriptions abbreviated)
fallbackMarkets ==
    << Market("pm-fallback-1", FedCut, NoText, "polymarket", "economy", 420, 580, 2450000, "2025-03-31"),
       Market("kl-fallback-1", Rain, NoText, "kalshi", "politics", 280, 720, 890000, "2025-03-01"),
       Market("pm-fallback-2", BtcUp, NoText, "polymarket", "crypto", 350, 650, 5800000, "2025-12-31"),
       Market("kl-fallback-2", Rain, NoText, "kalshi", "sports", 220, 780, 4500000, "2025-02-09"),
       Market("pm-fallback-3", Rain, NoText, "polymarket", "tech", 650, 350, 4100000, "2025-12-31"),
       Market("kl-fallback-3", FedCut, NoText, "kalshi", "economy", 310, 690, 1890000, "2025-12-31") >>


\* ------------------------------------------------------------ spread radar
Letters ==
    { "a","b","c","d","e","f","g","h","i","j","k","l","m",
      "n","o","p","q","r","s","t","u","v","w","x","y","z" }
Digits == { "0","1","2","3","4","5","6","7","8","9" }

\* the characters /[^a-z0-9\s]/g keeps; a space is the only white space in
\* the titles of the model
Kept(c) == c \in Letters \cup Digits \cup {" "}

\* .replace(/\s+/g, " "): a run of spaces becomes one space
RECURSIVE Squeeze(_)
Squeeze(s) ==
    IF Len(s) < 2 THEN s
    ELSE IF s[1] = " " /\ s[2] = " " THEN Squeeze(Tail(s))
    ELSE << s[1] >> \o Squeeze(Tail(s))

\* .trim() of a string whose runs of spaces are single
trim(s) ==
    LET from == IF Len(s) > 0 /\ s[1] = " " THEN 2 ELSE 1
        to == IF Len(s) > 0 /\ s[Len(s)] = " " THEN Len(s) - 1 ELSE Len(s)
    IN  SubSeq(s, from, to)

\* api-clients: normalizeTitle(title)
normalizeTitle(title) == trim(Squeeze(SelectSeq(toLowerCase(title), Kept)))

\* .split(" "): the empty string gives one empty word
RECURSIVE split(_)
split(s) ==
    IF \A i \in 1..Len(s) : s[i] # " " THEN << s >>
    ELSE LET i == CHOOSE k \in 1..Len(s) : s[k] = " " /\ \A j \in 1..(k - 1) : s[j] # " "
         IN  << SubSeq(s, 1, i - 1) >> \o split(SubSeq(s, i + 1, Len(s)))

Range(f) == { f[i] : i \in DOMAIN f }

\* api-clients: calculateSimilarity(title1, title2): the quotient n / d, kept
\* as its two terms
calculateSimilarity(title1, title2) ==
    LET words1 == split(normalizeTitle(title1))
        words2 == split(normalizeTitle(title2))
        set2 == Range(words2)
        InSet2(x) == x \in set2
        intersection == SelectSeq(words1, InSet2)
        unionSet == Range(words1) \cup set2
    IN  [n |-> Len(intersection), d |-> Cardinality(unionSet)]

\* similarity >= tenths / 10
AtLeast(similarity, tenths) == similarity.n * 10 >= tenths * similarity.d
\* similarity > tenths / 10
Above(similarity, tenths) == similarity.n * 10 > tenths * similarity.d
\* the comparison of line 189 the other way round
Less(a, b) == a.n * b.d < b.n * a.d
\* a > b for two similarities
Greater(a, b) == a.n * b.d > b.n * a.d

NoMatch == [found |-> FALSE, market |-> NoMarket, similarity |-> [n |-> 0, d |-> 1]]

\* the inner loop of findMatchingMarkets looking at every Kalshi market,
\* also one a pair has used
RECURSIVE BestMatchAmongAll(_, _, _, _)
BestMatchAmongAll(pm, kalshiMarkets, usedKalshi, bestMatch) ==
    IF kalshiMarkets = <<>> THEN bestMatch
    ELSE LET kl == Head(kalshiMarkets)
             similarity == calculateSimilarity(pm.title, kl.title)
         IN  IF Above(similarity, 3)
                   /\ (~bestMatch.found \/ Greater(similarity, bestMatch.similarity))
             THEN BestMatchAmongAll(pm, Tail(kalshiMarkets), usedKalshi,
                            [found |-> TRUE, market |-> kl, similarity |-> similarity])
             ELSE BestMatchAmongAll(pm, Tail(kalshiMarkets), usedKalshi, bestMatch)

\* api-clients: findMatchingMarkets, the inner loop (185-192): bestMatch after
\* the Kalshi markets given
RECURSIVE BestMatch(_, _, _, _)
BestMatch(pm, kalshiMarkets, usedKalshi, bestMatch) ==
    IF kalshiMarkets = <<>> THEN bestMatch
    ELSE LET kl == Head(kalshiMarkets)
             similarity == calculateSimilarity(pm.title, kl.title)
         IN  IF kl.id \in usedKalshi
             THEN BestMatch(pm, Tail(kalshiMarkets), usedKalshi, bestMatch)
             ELSE IF Above(similarity, 3)
                       /\ (~bestMatch.found \/ Greater(similarity, bestMatch.similarity))
             THEN BestMatch(pm, Tail(kalshiMarkets), usedKalshi,
                            [found |-> TRUE, market |-> kl, similarity |-> similarity])
             ELSE BestMatch(pm, Tail(kalshiMarkets), usedKalshi, bestMatch)

\* api-clients: findMatchingMarkets, the outer loop (182-202)
RECURSIVE Matches(_, _, _)
Matches(polymarketMarkets, kalshiMarkets, usedKalshi) ==
    IF polymarketMarkets = <<>> THEN <<>>
    ELSE LET pm == Head(polymarketMarkets)
             bestMatch == BestMatch(pm, kalshiMarkets, usedKalshi, NoMatch)
         IN  IF bestMatch.found /\ Above(bestMatch.similarity, 4)
             THEN << [polymarket |-> pm, kalshi |-> bestMatch.market,
                      similarity |-> bestMatch.similarity] >>
                  \o Matches(Tail(polymarketMarkets), kalshiMarkets,
                             usedKalshi \cup {bestMatch.market.id})
             ELSE Matches(Tail(polymarketMarkets), kalshiMarkets, usedKalshi)

IsPolymarket(m) == m.platform = "polymarket"
IsKalshiMarket(m) == m.platform = "kalshi"

\* api-clients: findMatchingMarkets(markets)
findMatchingMarkets(list) ==
    Matches(SelectSeq(list, IsPolymarket), SelectSeq(list, IsKalshiMarket), {})

\* shared/schema: SpreadOpportunity; spreadPercent is in tenths of a percent,
\* NULL stands for null; detectedAt, the time of the call, is left out
SpreadOpportunity(id, title, polymarketId, kalshiId, polymarketYesPrice, kalshiYesPrice, spreadPercent, spreadDirection, combinedVolume, category, resolutionDate, confidence) ==
    [ id |-> id, title |-> title, polymarketId |-> polymarketId, kalshiId |-> kalshiId,
      polymarketYesPrice |-> polymarketYesPrice, kalshiYesPrice |-> kalshiYesPrice,
      spreadPercent |-> spreadPercent, spreadDirection |-> spreadDirection,
      combinedVolume |-> combinedVolume, category |-> category,
      resolutionDate |-> resolutionDate, confidence |-> confidence ]

\* api-clients: detectSpreadOpportunities, mockSpreads
mockSpreads ==
    <<
       SpreadOpportunity("mock-1",
           <<"W","i","l","l"," ","B","i","t","c","o","i","n"," ","e","x","c","e","e","d"," ","$","1","5","0",",","0","0","0"," ","b","y"," ","e","n","d"," ","o","f"," ","2","0","2","5","?">>,
           "poly-btc-150k", "kalshi-btc-150k", 420, 350, 70, "polymarket_higher", 2500000, "crypto", "2025-12-31", "high"),
       SpreadOpportunity("mock-2",
           <<"W","i","l","l"," ","E","t","h","e","r","e","u","m"," ","r","e","a","c","h"," ","$","1","0",",","0","0","0"," ","i","n"," ","2","0","2","5","?">>,
           "poly-eth-10k", "kalshi-eth-10k", 280, 340, 60, "kalshi_higher", 1800000, "crypto", "2025-12-31", "high"),
       SpreadOpportunity("mock-3",
           <<"W","i","l","l"," ","F","e","d"," ","c","u","t"," ","r","a","t","e","s"," ","i","n"," ","J","a","n","u","a","r","y"," ","2","0","2","5","?">>,
           "poly-fed-jan", "kalshi-fed-jan", 150, 220, 70, "kalshi_higher", 3200000, "economy", "2025-01-31", "high"),
       SpreadOpportunity("mock-4",
           <<"W","i","l","l"," ","T","e","s","l","a"," ","s","t","o","c","k"," ","h","i","t"," ","$","5","0","0"," ","b","y"," ","Q","1"," ","2","0","2","5","?">>,
           "poly-tsla-500", "kalshi-tsla-500", 550, 480, 70, "polymarket_higher", 1500000, "economy", "2025-03-31", "medium"),
       SpreadOpportunity("mock-5",
           <<"W","i","l","l"," ","U","k","r","a","i","n","e"," ","c","o","n","f","l","i","c","t"," ","e","n","d"," ","b","e","f","o","r","e"," ","J","u","l","y"," ","2","0","2","5","?">>,
           "poly-ukraine", "kalshi-ukraine", 180, 250, 70, "kalshi_higher", 4500000, "politics", "2025-06-30", "medium"),
       SpreadOpportunity("mock-6",
           <<"W","i","l","l"," ","S","o","l","a","n","a"," ","f","l","i","p"," ","E","t","h","e","r","e","u","m"," ","m","a","r","k","e","t"," ","c","a","p"," ","i","n"," ","2","0","2","5","?">>,
           "poly-sol-flip", "kalshi-sol-flip", 80, 120, 40, "kalshi_higher", 890000, "crypto", "2025-12-31", "medium"),
       SpreadOpportunity("mock-7",
           <<"W","i","l","l"," ","A","p","p","l","e"," ","r","e","l","e","a","s","e"," ","A","R"," ","g","l","a","s","s","e","s"," ","i","n"," ","2","0","2","5","?">>,
           "poly-apple-ar", "kalshi-apple-ar", 380, 320, 60, "polymarket_higher", 720000, "tech", "2025-12-31", "low"),
       SpreadOpportunity("mock-8",
           <<"W","i","l","l"," ","S","&","P"," ","5","0","0"," ","r","e","a","c","h"," ","6","5","0","0"," ","b","y"," ","m","i","d","-","2","0","2","5","?">>,
           "poly-sp500", "kalshi-sp500", 620, 550, 70, "polymarket_higher", 2100000, "economy", "2025-06-30", "high")
    >>

Abs(x) == IF x < 0 THEN 0 - x ELSE x

\* The prices are doubles, and so are the products the code compares with its
\* two thresholds: for some prices the product is a few units in the last place
\* beside the exact value, which shows only when the exact value is the
\* threshold.  Of the prices of the model, by IEEE 754 arithmetic:
\*   Math.abs(0.2 - 0.22) * 100 = 1.9999999999999991   (pmPrice, klPrice)
\*   Math.abs(0.3 - 0.32) * 100 = 2.0000000000000018
RoundedBelow == { << 200, 220 >> }
\*   Math.abs(0.1 - (1 - 0.85)) * 100 = 5.000000000000002   (yesPrice, noPrice)
\*   Math.abs(0.35 - (1 - 0.7)) * 100 = 4.999999999999993
RoundedAbove == { << 100, 850 >> }

\* line 346: spreadPercent < 2
BelowTwo(pmPrice, klPrice) ==
    \/ Abs(pmPrice - klPrice) < 20
    \/ Abs(pmPrice - klPrice) = 20 /\ << pmPrice, klPrice >> \in RoundedBelow

\* the confidence with medium from 0.5 on
confidenceFromHalf(similarity) ==
    IF similarity.n * 10 > 7 * similarity.d THEN "high"
    ELSE IF similarity.n * 10 >= 5 * similarity.d THEN "medium" ELSE "low"

\* lines 348-350: confidence, given match.similarity
confidenceOf(similarity) ==
    IF Above(similarity, 7) THEN "high"
    ELSE IF Above(similarity, 5) THEN "medium" ELSE "low"

\* the direction naming the side with the lower price
spreadDirectionOfLower(pmPrice, klPrice) ==
    IF pmPrice < klPrice THEN "polymarket_higher" ELSE "kalshi_higher"

\* line 359: spreadDirection of a cross-source opportunity
spreadDirection(pmPrice, klPrice) ==
    IF pmPrice > klPrice THEN "polymarket_higher" ELSE "kalshi_higher"

\* api-clients: detectSpreadOpportunities, the loop over matches (338-367),
\* from position index (counted from 0) on
RECURSIVE CrossSource(_, _)
CrossSource(found, index) ==
    IF index >= Len(found) THEN <<>>
    ELSE LET match == found[index + 1]
             pmPrice == match.polymarket.yesPrice
             klPrice == match.kalshi.yesPrice
             \* Math.abs(pmPrice - klPrice) * 100, in tenths of a percent
             spreadPercent == Abs(pmPrice - klPrice)
             confidence == confidenceOf(match.similarity)
         IN  (IF BelowTwo(pmPrice, klPrice) THEN <<>>
              ELSE << SpreadOpportunity("spread-" \o ToString(index), match.polymarket.title,
                         match.polymarket.id, match.kalshi.id, pmPrice, klPrice,
                         spreadPercent,
                         spreadDirection(pmPrice, klPrice),
                         match.polymarket.volume + match.kalshi.volume,
                         match.polymarket.category, match.polymarket.resolutionDate,
                         confidence) >>)
             \o CrossSource(found, index + 1)

\* Math.abs(m.yesPrice - (1 - m.noPrice)) * 100, in tenths of a percent
internalSpread(m) == Abs(m.yesPrice - (1000 - m.noPrice))
\* line 375: internalSpread > 5
HasInternalSpread(m) ==
    \/ internalSpread(m) > 50
    \/ internalSpread(m) = 50 /\ << m.yesPrice, m.noPrice >> \in RoundedAbove

\* api-clients: detectSpreadOpportunities, singlePlatformSpreads (372-391)
singlePlatformSpreads(list) ==
    LET filtered == SelectSeq(list, HasInternalSpread)
    IN  [ i \in 1..Len(filtered) |->
            LET m == filtered[i]
            IN  SpreadOpportunity("internal-spread-" \o ToString(i - 1), m.title,
                    IF m.platform = "polymarket" THEN m.id ELSE "null",
                    IF m.platform = "kalshi" THEN m.id ELSE "null",
                    IF m.platform = "polymarket" THEN m.yesPrice ELSE NULL,
                    IF m.platform = "kalshi" THEN m.yesPrice ELSE NULL,
                    internalSpread(m),
                    IF m.platform = "polymarket" THEN "polymarket_higher" ELSE "kalshi_higher",
                    m.volume, m.category, m.resolutionDate, "medium") ]

\* where a stable sort by spreadPercent, largest first, puts x in sorted
RECURSIVE Insert(_, _)
Insert(sorted, x) ==
    IF sorted = <<>> THEN << x >>
    ELSE IF Head(sorted).spreadPercent >= x.spreadPercent
         THEN << Head(sorted) >> \o Insert(Tail(sorted), x)
         ELSE << x >> \o sorted

\* the list as it is, not sorted
Unsorted(list) == list

\* .sort((a, b) => b.spreadPercent - a.spreadPercent): stable, largest first
RECURSIVE SortBySpread(_)
SortBySpread(list) ==
    IF list = <<>> THEN <<>>
    ELSE Insert(SortBySpread(SubSeq(list, 1, Len(list) - 1)), list[Len(list)])

\* .slice(0, count)
slice(list, count) == SubSeq(list, 1, Min(count, Len(list)))

\* api-clients: detectSpreadOpportunities, the three lists joined at line 393
Candidates(list) ==
    mockSpreads
    \o SortBySpread(CrossSource(findMatchingMarkets(list), 0))
    \o singlePlatformSpreads(list)

\* api-clients: detectSpreadOpportunities(), given what getCachedMarkets returns
detectSpreadOpportunities(list) == slice(SortBySpread(Candidates(list)), 20)


\* ------------------------------------------------------------------ state
VARIABLES
    now,               \* the value Date.now() returns
    marketCache,       \* polymarket-ws: Map id -> Market, in insertion order
    slugToMarketId,    \* polymarket-ws: Map slug -> id
    wsConnection,      \* polymarket-ws: the socket the module refers to, or NULL
    sockets,           \* readyState of every socket object that exists
    reconnectAttempts, \* polymarket-ws
    timers,            \* pending setTimeout callbacks of scheduleReconnect: their delays
    lastFullRefresh,   \* polymarket-ws
    cachedMarkets,     \* api-clients: the array served to readers
    lastFetchTime,     \* api-clients
    isLiveData,        \* api-clients
    req,               \* the fetchAllMarkets calls: position and locals of each
    crashed,           \* an exception left a socket callback uncaught
    lastMessage,       \* the last message handed to handleRTDSMessage, and by which socket
    shutdown,          \* closeWebSocket has closed a connection (history)
    lastReturn,        \* the last call that returned: its results and the list returned
    hist,              \* per call: what a reader saw when the call started (history)
    lastOpen,          \* the last "open" event: its socket, and the socket the subscription went to
    disconnects,       \* "close" events since the last "open" event (history)
    raw,               \* one listing as a source sends it, and which adapter reads it
    produced,          \* the records the adapter made of raw
    snapshot,          \* detectSpreadOpportunities: markets, the snapshot it works on
    matches,           \* findMatchingMarkets(markets), once computed
    spreads,           \* what detectSpreadOpportunities returns, once computed
    titlePair,         \* calculateSimilarity: title1 and title2
    measured           \* calculateSimilarity(title1, title2), once computed

\* the variables of the adapter passes and of the detector taken alone
pureVars == << raw, produced, snapshot, matches, spreads, titlePair, measured >>

vars == << now, marketCache, slugToMarketId, wsConnection, sockets, reconnectAttempts,
           timers, lastFullRefresh, cachedMarkets, lastFetchTime, isLiveData, req,
           crashed, lastMessage, shutdown, lastReturn, hist, lastOpen, disconnects,
           pureVars >>

Requests == 1..MaxReq
SocketIds == 1..MaxSockets

\* ------------------------------------------------------- objects and arrays
\* An array element is a reference to a Market object.  The objects that the
\* live feed can still mutate are exactly those marketCache holds, so an element
\* is either live (it is the object marketCache holds under id) or a detached
\* object, which nothing mutates any more and which is kept by value.
Ref(id) == [live |-> TRUE, id |-> id, m |-> NoMarket]
Obj(m) == [live |-> FALSE, id |-> m.id, m |-> m]

Ids(markets) == { markets[i].id : i \in 1..Len(markets) }

\* Map.has / Map.get / Map.set on a Map kept as the sequence of its values
MapHas(mc, id) == id \in Ids(mc)
MapGet(mc, id) == mc[CHOOSE i \in 1..Len(mc) : mc[i].id = id]
\* an array in place of the Map: the record is added whether or not the id is there
MapPush(mc, m) == Append(mc, m)

MapSet(mc, m) ==
    IF MapHas(mc, m.id)
    THEN [i \in 1..Len(mc) |-> IF mc[i].id = m.id THEN m ELSE mc[i]]
    ELSE Append(mc, m)

SlugSet(slugs, slug, id) ==
    [s \in DOMAIN slugs \cup {slug} |-> IF s = slug THEN id ELSE slugs[s]]

\* the object an element refers to, as it is now
Deref(e) == IF e.live THEN MapGet(marketCache, e.id) ELSE e.m
Objects(entries) == [i \in 1..Len(entries) |-> Deref(entries[i])]

\* Array.from(marketCache.values())
Values(mc) == [i \in 1..Len(mc) |-> Ref(mc[i].id)]

\* marketCache.set(id, newObject) for the ids given: the old objects leave the
\* Map, and the elements that refer to them keep them as they are now
Detach(entries, ids) ==
    [i \in 1..Len(entries) |->
        IF entries[i].live /\ entries[i].id \in ids THEN Obj(Deref(entries[i]))
        ELSE entries[i]]

\* the cache rebuilt from the listings of the response alone
RECURSIVE IngestListedOnly(_, _, _)
IngestListedOnly(mc, slugs, listings) ==
    IF listings = <<>> THEN [mc |-> <<>>, slugs |-> slugs]
    ELSE LET l == listings[Len(listings)]
             rest == IngestListedOnly(mc, slugs, SubSeq(listings, 1, Len(listings) - 1))
         IN  [mc |-> MapSet(rest.mc, l.m),
              slugs |-> IF l.slug # "" THEN SlugSet(rest.slugs, l.slug, l.m.id)
                        ELSE rest.slugs]

\* the two set calls per ingested listing of the adapter loops
\* (polymarket-ws 120-124 and 181-185); assetToMarketMap is written only
RECURSIVE Ingest(_, _, _)
Ingest(mc, slugs, listings) ==
    IF listings = <<>> THEN [mc |-> mc, slugs |-> slugs]
    ELSE LET l == Head(listings)
         IN  Ingest(MapSet(mc, l.m),
                    IF l.slug # "" THEN SlugSet(slugs, l.slug, l.m.id) ELSE slugs,
                    Tail(listings))

\* --------------------------------------------------------------- readers
\* api-clients: the list fetchAllMarkets returns, as a reader sees it
fetchAllMarketsView == Objects(cachedMarkets)

IsKalshi(m) == m.platform = "kalshi"

\* api-clients: getCachedMarkets()
getCachedMarkets ==
    IF Len(marketCache) > 0
    THEN marketCache \o SelectSeq(Objects(cachedMarkets), IsKalshi)
    ELSE Objects(cachedMarkets)

\* api-clients: getCachedMarketById(id), NoMarket for undefined
getCachedMarketById(id) ==
    IF MapHas(marketCache, id) THEN MapGet(marketCache, id)
    ELSE IF id \in Ids(cachedMarkets) THEN MapGet(Objects(cachedMarkets), id)
    ELSE NoMarket

\* ------------------------------------------------------------------- Init
IdleReq ==
    [ pc |-> "idle", now |-> 0, ev |-> "none", dir |-> "none", kl |-> "none",
      pmDone |-> FALSE, pmArr |-> <<>>, klArr |-> <<>> ]

NoReturn ==
    [ call |-> NULL, refreshed |-> FALSE, wasLive |-> FALSE, ev |-> "none", dir |-> "none",
      kl |-> "none", polymarketMarkets |-> <<>>, kalshiMarkets |-> <<>>, ret |-> <<>> ]

NoHist == [pre |-> {}, alone |-> FALSE]
NoMessage ==
    [socket |-> NULL,
     message |-> [topic |-> "", type |-> "", market_slug |-> "", outcome |-> "",
                  price |-> 0]]

NoOpen == [socket |-> NULL, sentOn |-> NULL]

InitProgram ==
    /\ now = CACHE_TTL
    /\ marketCache = <<>>
    /\ slugToMarketId = <<>>
    /\ wsConnection = NULL
    /\ sockets = [s \in SocketIds |-> "NONE"]
    /\ reconnectAttempts = 0
    /\ timers = <<>>
    /\ lastFullRefresh = 0
    /\ cachedMarkets = [i \in 1..Len(fallbackMarkets) |-> Obj(fallbackMarkets[i])]
    /\ lastFetchTime = 0
    /\ isLiveData = FALSE
    /\ req = [r \in Requests |-> IdleReq]
    /\ crashed = FALSE
    /\ lastMessage = NoMessage
    /\ shutdown = FALSE
    /\ lastReturn = NoReturn
    /\ hist = [r \in Requests |-> NoHist]
    /\ lastOpen = NoOpen
    /\ disconnects = 0

\* nothing has been handed to an adapter or to the detector
NoRaw == [adapter |-> "none"]
NotComputed == [computed |-> FALSE, list |-> <<>>]
Computed(list) == [computed |-> TRUE, list |-> list]

NoTitles == << NoText, NoText >>
NotMeasured == [computed |-> FALSE, similarity |-> [n |-> 0, d |-> 1]]

InitPure ==
    /\ raw = NoRaw
    /\ produced = <<>>
    /\ snapshot = <<>>
    /\ matches = NotComputed
    /\ spreads = NotComputed
    /\ titlePair = NoTitles
    /\ measured = NotMeasured

Init == InitProgram /\ InitPure


\* -------------------------------------------------------------- live feed
Alive(state) == state \in {"CONNECTING", "OPEN", "CLOSING"}

\* A closed socket that nothing refers to is garbage: its slot is free again.
Collect(socks, ws) ==
    [s \in SocketIds |-> IF socks[s] = "CLOSED" /\ s # ws THEN "NONE" ELSE socks[s]]

FreeSlots(socks) == { s \in SocketIds : socks[s] \in {"NONE", "CLOSED"} }

\* new WebSocket(url) can be modelled: connectWebSocket returns early or a slot is free
CanConnect(socks, ws) ==
    \/ ws # NULL /\ socks[ws] = "OPEN"
    \/ FreeSlots(socks) # {}

\* polymarket-ws: connectWebSocket(); the constructor does not throw for the
\* constant, well-formed URL, so the catch branch is not taken
connectWebSocket(socks, ws) ==
    IF ws # NULL /\ socks[ws] = "OPEN"
    THEN [sockets |-> socks, wsConnection |-> ws]
    ELSE LET s == CHOOSE x \in FreeSlots(socks) : \A y \in FreeSlots(socks) : x <= y
         IN  [sockets |-> [Collect(socks, NULL) EXCEPT ![s] = "CONNECTING"],
              wsConnection |-> s]

\* a guard that never gives up
NeverGivesUp(attempts) == FALSE

\* polymarket-ws: scheduleReconnect(), the test of its first line
GivesUp(attempts) == attempts >= MAX_RECONNECT_ATTEMPTS

\* scheduleReconnect with the same delay for every attempt
scheduleReconnectFixedDelay(attempts, pending) ==
    IF attempts >= MAX_RECONNECT_ATTEMPTS
    THEN [reconnectAttempts |-> attempts, timers |-> pending]
    ELSE [reconnectAttempts |-> attempts + 1, timers |-> Append(pending, RECONNECT_DELAY)]

\* polymarket-ws: scheduleReconnect()
scheduleReconnect(attempts, pending) ==
    IF GivesUp(attempts)
    THEN [reconnectAttempts |-> attempts, timers |-> pending]
    ELSE [reconnectAttempts |-> attempts + 1,
          timers |-> Append(pending, RECONNECT_DELAY * (attempts + 1))]

\* Applies without the range check of line 285
AppliesAnyPrice(message) ==
    /\ message.topic = "activity" /\ message.type = "trades"
    /\ message.market_slug # ""
    /\ message.price # 0 /\ message.price # NaN
    /\ message.market_slug \in DOMAIN slugToMarketId
    /\ MapHas(marketCache, slugToMarketId[message.market_slug])

\* polymarket-ws: handleRTDSMessage(message): does the message change a price
Applies(message) ==
    /\ message.topic = "activity" /\ message.type = "trades"
    /\ message.market_slug # ""
    /\ message.price # 0 /\ message.price # NaN
    /\ message.market_slug \in DOMAIN slugToMarketId
    /\ MapHas(marketCache, slugToMarketId[message.market_slug])
    /\ Inside(message.price)

\* handleRTDSMessage writing the price to every cached market instead of the
\* one the slug resolves to
handleRTDSMessageEveryMarket(message) ==
    IF Applies(message)
    THEN LET newPrice == message.price
         IN  [i \in 1..Len(marketCache) |->
                 IF message.outcome = "Yes" \/ message.outcome = "yes"
                 THEN [marketCache[i] EXCEPT !.yesPrice = newPrice,
                                             !.noPrice = OneMinus(newPrice)]
                 ELSE [marketCache[i] EXCEPT !.noPrice = newPrice,
                                             !.yesPrice = OneMinus(newPrice)]]
    ELSE marketCache

\* polymarket-ws: handleRTDSMessage(message), the Map afterwards
handleRTDSMessage(message) ==
    IF Applies(message)
    THEN LET marketId == slugToMarketId[message.market_slug]
             market == MapGet(marketCache, marketId)
             newPrice == message.price
         IN  MapSet(marketCache,
                    IF message.outcome = "Yes" \/ message.outcome = "yes"
                    THEN [market EXCEPT !.yesPrice = newPrice, !.noPrice = OneMinus(newPrice)]
                    ELSE [market EXCEPT !.noPrice = newPrice, !.yesPrice = OneMinus(newPrice)])
    ELSE marketCache

Trade(topic, slug, outcome, price) ==
    [topic |-> topic, type |-> "trades", market_slug |-> slug, outcome |-> outcome,
     price |-> price]

\* the messages the feed delivers
Messages ==
    { Trade("activity", "s1", "Yes", 700), Trade("activity", "s2", "No", 995),
      Trade("activity", "sX", "Yes", 700), Trade("activity", "s1", "Yes", 1000),
      Trade("activity", "s1", "No", 0), Trade("comments", "s1", "Yes", 700),
      Trade("activity", "s1", "Yes", NaN), Trade("activity", "s1", "yes", TINY) }

\* wsConnection?.send(...) in the "open" handler of socket s: the socket that
\* receives the subscription, NULL when none does: wsConnection is null, or is
\* a socket that is not open (send() throws on a connecting socket and sends
\* nothing on a closing or closed one)
SendTarget(s, socks) ==
    IF wsConnection # NULL /\ socks[wsConnection] = "OPEN" THEN wsConnection ELSE NULL

\* socket s emits "open" (polymarket-ws 218-233).  The subscription is sent on
\* wsConnection, not on s: ws throws from send() on a socket that is still
\* CONNECTING, and nothing catches it.
WsOpen(s) ==
    /\ ~crashed
    /\ sockets[s] = "CONNECTING"
    /\ sockets' = [sockets EXCEPT ![s] = "OPEN"]
    /\ reconnectAttempts' = 0
    /\ disconnects' = 0
    /\ crashed' = (wsConnection # NULL /\ wsConnection # s
                   /\ sockets[wsConnection] = "CONNECTING")
    /\ lastOpen' = [socket |-> s, sentOn |-> SendTarget(s, sockets')]
    /\ UNCHANGED << now, marketCache, slugToMarketId, wsConnection, timers,
                    lastFullRefresh, cachedMarkets, lastFetchTime, isLiveData, req,
                    lastMessage, shutdown, lastReturn, hist >>
    /\ UNCHANGED pureVars

\* socket s emits "message" (polymarket-ws 235-242)
WsMessage(s, message) ==
    /\ ~crashed
    /\ sockets[s] = "OPEN"
    /\ marketCache' = handleRTDSMessage(message)
    /\ lastMessage' = [socket |-> s, message |-> message]
    /\ UNCHANGED << now, slugToMarketId, wsConnection, sockets, reconnectAttempts,
                    timers, lastFullRefresh, cachedMarkets, lastFetchTime, isLiveData,
                    req, crashed, shutdown, lastReturn, hist >>
    /\ UNCHANGED << lastOpen, disconnects >>
    /\ UNCHANGED pureVars

\* socket s emits "close" (polymarket-ws 244-247), after "error" when it failed
WsClose(s) ==
    /\ ~crashed
    /\ Alive(sockets[s])
    /\ reconnectAttempts < MAX_RECONNECT_ATTEMPTS => Len(timers) < MaxTimers
    /\ LET sr == scheduleReconnect(reconnectAttempts, timers)
       IN  /\ reconnectAttempts' = sr.reconnectAttempts
           /\ timers' = sr.timers
    /\ disconnects' = Min(disconnects + 1, MAX_RECONNECT_ATTEMPTS + 1)
    /\ sockets' = Collect([sockets EXCEPT ![s] = "CLOSED"], wsConnection)
    /\ UNCHANGED << now, marketCache, slugToMarketId, wsConnection, lastFullRefresh,
                    cachedMarkets, lastFetchTime, isLiveData, req, crashed,
                    lastMessage, shutdown, lastReturn, hist >>
    /\ UNCHANGED lastOpen
    /\ UNCHANGED pureVars

\* the i-th pending timer of scheduleReconnect fires (polymarket-ws 269-271)
ReconnectTimer(i) ==
    /\ ~crashed
    /\ i \in 1..Len(timers)
    /\ CanConnect(sockets, wsConnection)
    /\ timers' = [j \in 1..(Len(timers) - 1) |-> IF j < i THEN timers[j] ELSE timers[j + 1]]
    /\ LET c == connectWebSocket(sockets, wsConnection)
       IN  /\ sockets' = c.sockets
           /\ wsConnection' = c.wsConnection
    /\ UNCHANGED << now, marketCache, slugToMarketId, reconnectAttempts,
                    lastFullRefresh, cachedMarkets, lastFetchTime, isLiveData, req,
                    crashed, lastMessage, shutdown, lastReturn, hist >>
    /\ UNCHANGED << lastOpen, disconnects >>
    /\ UNCHANGED pureVars

\* polymarket-ws: closeWebSocket()
closeWebSocket ==
    /\ ~crashed
    /\ IF wsConnection # NULL
       THEN /\ sockets' = Collect([sockets EXCEPT ![wsConnection] =
                                      IF Alive(@) THEN "CLOSING" ELSE @], NULL)
            /\ wsConnection' = NULL
            /\ shutdown' = TRUE
       ELSE UNCHANGED << sockets, wsConnection, shutdown >>
    /\ UNCHANGED << now, marketCache, slugToMarketId, reconnectAttempts, timers,
                    lastFullRefresh, cachedMarkets, lastFetchTime, isLiveData, req,
                    crashed, lastMessage, lastReturn, hist >>
    /\ UNCHANGED << lastOpen, disconnects >>
    /\ UNCHANGED pureVars


\* ---------------------------------------------------------------- refresh
\* what a live element keeps when the adapter replaces the objects under ids
DetachReq(q, ids) ==
    [q EXCEPT !.pmArr = Detach(@, ids)]

DetachReturn(ret, ids) ==
    [ret EXCEPT !.polymarketMarkets = Detach(@, ids), !.ret = Detach(@, ids)]

FallbackObjects == [i \in 1..Len(fallbackMarkets) |-> Obj(fallbackMarkets[i])]

\* Merge assigning the joined results whether or not there are any
MergeAlways(polymarketMarkets, kalshiMarkets, cached) ==
    polymarketMarkets \o kalshiMarkets

\* api-clients: fetchAllMarkets, lines 113-125: the array cachedMarkets is
\* afterwards, given the two joined results
Merge(polymarketMarkets, kalshiMarkets, cached) ==
    LET allMarkets == polymarketMarkets \o kalshiMarkets
    IN  IF Len(allMarkets) > 0 THEN allMarkets
        ELSE IF Len(cached) = 0 THEN FallbackObjects
        ELSE cached

\* the test of line 321 without its first half
StartsFeedWithoutData(mc, ws) == ws = NULL

\* polymarket-ws: getPolymarketMarkets, line 321: the live feed is started
StartsFeed(mc, ws) == Len(mc) > 0 /\ ws = NULL

\* The continuations that run once a response has been consumed by call r.
\* mc, slugs, cached, rq: marketCache, slugToMarketId, cachedMarkets and req as
\* the response handler left them.
\*  - polymarket-ws getPolymarketMarkets 313-326, when both of its fetches are
\*    settled (its loop 313-317 adds nothing: each adapter has stored every
\*    record it returns, and nothing deletes from marketCache);
\*  - api-clients fetchAllMarkets 113-125, when both sources are settled.
Resume(r, mc, slugs, cached, rq, lr) ==
    LET q == rq[r]
        pmJoin == ~q.pmDone /\ q.ev # "pending" /\ q.dir # "pending"
        connect == pmJoin /\ StartsFeed(mc, wsConnection)
        q2 == IF pmJoin THEN [q EXCEPT !.pmDone = TRUE, !.pmArr = Values(mc)] ELSE q
        merge == q2.pmDone /\ q2.kl # "pending"
        live == merge /\ Len(q2.pmArr) + Len(q2.klArr) > 0
        cached2 == IF merge THEN Merge(q2.pmArr, q2.klArr, cached) ELSE cached
        q3 == IF merge THEN IdleReq ELSE q2
        c == connectWebSocket(sockets, wsConnection)
    IN  /\ connect => CanConnect(sockets, wsConnection)
        /\ marketCache' = mc
        /\ slugToMarketId' = slugs
        /\ lastFullRefresh' = IF pmJoin THEN q.now ELSE lastFullRefresh
        /\ sockets' = IF connect THEN c.sockets ELSE sockets
        /\ wsConnection' = IF connect THEN c.wsConnection ELSE wsConnection
        /\ cachedMarkets' = cached2
        /\ lastFetchTime' = IF live THEN q.now ELSE lastFetchTime
        /\ isLiveData' = (isLiveData \/ live)
        /\ req' = [rq EXCEPT ![r] = q3]
        /\ lastReturn' =
              IF merge
              THEN [ call |-> r, refreshed |-> TRUE, wasLive |-> isLiveData, ev |-> q2.ev,
                     dir |-> q2.dir, kl |-> q2.kl, polymarketMarkets |-> q2.pmArr,
                     kalshiMarkets |-> q2.klArr, ret |-> cached2 ]
              ELSE lr
        /\ hist' = IF merge THEN [hist EXCEPT ![r] = NoHist] ELSE hist
        /\ UNCHANGED << now, reconnectAttempts, timers, crashed, lastMessage, shutdown >>
        /\ UNCHANGED << lastOpen, disconnects >>
        /\ UNCHANGED pureVars

\* the test of line 104 with <= in place of <
CacheFreshAtTTL(t) ==
    isLiveData /\ Len(cachedMarkets) > 0 /\ (t - lastFetchTime) <= CACHE_TTL

\* api-clients: fetchAllMarkets, line 104: the cache is served as it is at time t
CacheFresh(t) ==
    isLiveData /\ Len(cachedMarkets) > 0 /\ (t - lastFetchTime) < CACHE_TTL

\* polymarket-ws: getPolymarketMarkets, line 307: both endpoints are fetched
FullRefreshDue(t) ==
    Len(marketCache) = 0 \/ (t - lastFullRefresh) > FULL_REFRESH_INTERVAL

\* api-clients: fetchAllMarkets() up to its await, with the synchronous part of
\* getPolymarketMarkets (304-311, or 326 when the Polymarket data is recent)
\* and the start of fetchKalshiMarkets
FetchAllMarkets(r) ==
    /\ ~crashed
    /\ req[r].pc = "idle"
    /\ IF CacheFresh(now)
       THEN /\ lastReturn' = [NoReturn EXCEPT !.call = r, !.wasLive = TRUE,
                                               !.ret = cachedMarkets]
            /\ UNCHANGED << req, hist >>
       ELSE LET refetch == FullRefreshDue(now)
                others == { q \in Requests : q # r /\ req[q].pc = "fetching" }
            IN  /\ req' = [req EXCEPT ![r] =
                     [IdleReq EXCEPT !.pc = "fetching", !.now = now,
                                     !.ev = IF refetch THEN "pending" ELSE "none",
                                     !.dir = IF refetch THEN "pending" ELSE "none",
                                     !.kl = "pending",
                                     !.pmDone = ~refetch,
                                     !.pmArr = IF refetch THEN <<>> ELSE Values(marketCache)]]
                /\ hist' = [q \in Requests |->
                              IF q = r THEN [pre |-> Ids(getCachedMarkets), alone |-> others = {}]
                              ELSE IF q \in others THEN [hist[q] EXCEPT !.alone = FALSE]
                              ELSE hist[q]]
                /\ UNCHANGED lastReturn
    /\ UNCHANGED << now, marketCache, slugToMarketId, wsConnection, sockets,
                    reconnectAttempts, timers, lastFullRefresh, cachedMarkets,
                    lastFetchTime, isLiveData, crashed, lastMessage, shutdown >>
    /\ UNCHANGED << lastOpen, disconnects >>
    /\ UNCHANGED pureVars

\* the ids an adapter pass stores new objects under, among those already cached
Replaced(listings) ==
    { listings[i].m.id : i \in 1..Len(listings) } \cap Ids(marketCache)

\* polymarket-ws: fetchAllPolymarketEvents() from its await on: call r consumes
\* the response to its /events request
EventsResponse(r, response) ==
    /\ ~crashed
    /\ req[r].pc = "fetching" /\ req[r].ev = "pending"
    /\ LET listings == EventsResult[response]
           ing == Ingest(marketCache, slugToMarketId, listings)
           ids == Replaced(listings)
       IN  Resume(r, ing.mc, ing.slugs, Detach(cachedMarkets, ids),
                  [q \in Requests |->
                      IF q = r
                      THEN [DetachReq(req[q], ids) EXCEPT
                               !.ev = IF response.ok THEN "ok" ELSE "failed"]
                      ELSE DetachReq(req[q], ids)],
                  DetachReturn(lastReturn, ids))

\* polymarket-ws: fetchPolymarketMarketsDirect() from its await on
DirectResponse(r, response) ==
    /\ ~crashed
    /\ req[r].pc = "fetching" /\ req[r].dir = "pending"
    /\ LET listings == DirectResult[response]
           ing == Ingest(marketCache, slugToMarketId, listings)
           ids == Replaced(listings)
       IN  Resume(r, ing.mc, ing.slugs, Detach(cachedMarkets, ids),
                  [q \in Requests |->
                      IF q = r
                      THEN [DetachReq(req[q], ids) EXCEPT
                               !.dir = IF response.ok THEN "ok" ELSE "failed"]
                      ELSE DetachReq(req[q], ids)],
                  DetachReturn(lastReturn, ids))

\* api-clients: fetchKalshiMarkets() from its await on
KalshiResponse(r, response) ==
    /\ ~crashed
    /\ req[r].pc = "fetching" /\ req[r].kl = "pending"
    /\ LET markets == KalshiResult[response]
       IN  Resume(r, marketCache, slugToMarketId, cachedMarkets,
                  [req EXCEPT ![r].kl = IF response.ok THEN "ok" ELSE "failed",
                              ![r].klArr = [i \in 1..Len(markets) |-> Obj(markets[i])]],
                  lastReturn)

\* time passes
Tick ==
    /\ ~crashed
    /\ now < CACHE_TTL + MaxTicks * TICK
    /\ now' = now + TICK
    /\ UNCHANGED << marketCache, slugToMarketId, wsConnection, sockets,
                    reconnectAttempts, timers, lastFullRefresh, cachedMarkets,
                    lastFetchTime, isLiveData, req, crashed, lastMessage, shutdown, lastReturn, hist >>
    /\ UNCHANGED << lastOpen, disconnects >>
    /\ UNCHANGED pureVars

\* ---------------------------------------------------------- specifications
\* the calls, responses and messages of one environment
Refresh(calls, events, direct, kalshi) ==
    \/ \E r \in calls : FetchAllMarkets(r)
    \/ \E r \in calls, response \in events : EventsResponse(r, response)
    \/ \E r \in calls, response \in direct : DirectResponse(r, response)
    \/ \E r \in calls, response \in kalshi : KalshiResponse(r, response)

Feed(messages) ==
    \/ \E s \in SocketIds : WsOpen(s)
    \/ \E s \in SocketIds, message \in messages : WsMessage(s, message)

Reconnects ==
    \/ \E s \in SocketIds : WsClose(s)
    \/ \E i \in 1..MaxTimers : ReconnectTimer(i)

\* Refreshes by one caller at a time against every response of the sources,
\* and the live feed delivering every message; no socket closes.
Next ==
    \/ Tick
    \/ Refresh({1}, EventsResponses, DirectResponses, KalshiResponses)
    \/ Feed(Messages)

Spec == Init /\ [][Next]_vars

\* The whole life cycle of the live feed, shutdown included, with sources that
\* list one Polymarket market or fail.
FeedEvents == { r \in EventsResponses : r.ok => Len(EventsResult[r]) = 1 }
FeedMessages == { m \in Messages : m.market_slug = "s1" /\ m.outcome = "Yes" }

NextFeed ==
    \/ Tick
    \/ Refresh({1}, FeedEvents, {Failure}, {Failure})
    \/ Feed(FeedMessages)
    \/ Reconnects
    \/ closeWebSocket

SpecFeed == Init /\ [][NextFeed]_vars

\* The same, with what the runtime guarantees: a timer that is due fires, a
\* socket that close() was called on emits "close", time passes.  Nothing makes
\* a source answer or the peer open a connection.
Closing == \E s \in SocketIds : sockets[s] = "CLOSING" /\ WsClose(s)

SpecLive ==
    /\ Init /\ [][NextFeed]_vars
    /\ WF_vars(\E i \in 1..MaxTimers : ReconnectTimer(i))
    /\ WF_vars(Closing)
    /\ WF_vars(Tick)

\* Trades of every kind on the one market the source lists: the outcome labels
\* and the prices a message can carry.
TradeMessages ==
    { Trade("activity", "s1", outcome, price) :
        outcome \in { "Yes", "yes", "No", "no", "Up", "" },
        price \in { 300, 700, TINY, 1000 } }

NextTrades ==
    \/ Tick
    \/ Refresh({1}, FeedEvents, {Failure}, {Failure})
    \/ Feed(TradeMessages)

SpecTrades == Init /\ [][NextTrades]_vars

\* Calls that overlap: every caller of fetchAllMarkets, against Polymarket
\* events that list market 1 at one price or another and a Kalshi source that
\* lists one market or fails.
CallsEvents == { r \in EventsResponses : r.ok }
CallsKalshi == { r \in KalshiResponses : Len(KalshiResult[r]) <= 1 }

NextCalls ==
    \/ Tick
    \/ Refresh(Requests, CallsEvents, {Failure}, CallsKalshi)

SpecCalls == Init /\ [][NextCalls]_vars

\* ------------------------------------------- the detector on its own
\* the Polymarket and the Kalshi records snapshots are made of
PolymarketPool ==
    <<
       Market("pm-1", <<"W","i","l","l"," ","B","T","C"," ","h","i","t"," ","$","1","5","0","k","?">>,
              NoText, "polymarket", "trending", 420, 580, 1000, "2026-12-31"),
       Market("pm-2", <<"B","t","c"," ","u","p">>,
              NoText, "polymarket", "trending", 600, 300, 2000, "2026-12-31"),
       Market("pm-3", <<"B","t","c"," ","u","p"," ","n","o","w">>,
              NoText, "polymarket", "trending", 550, 300, 3000, "2026-12-31"),
       Market("pm-4", <<"F","e","d"," ","c","u","t">>,
              NoText, "polymarket", "trending", 300, 600, 4000, "2026-12-31"),
       Market("pm-5", <<"?","?","?">>,
              NoText, "polymarket", "trending", 100, 990, 5000, "2026-12-31"),
       Market("pm-6", <<"R","a","i","n"," ","t","o","d","a","y">>,
              NoText, "polymarket", "trending", 200, 700, 6000, "2026-12-31")
    >>
KalshiPool ==
    <<
       Market("kl-A", <<"B","i","t","c","o","i","n"," ","t","o"," ","e","x","c","e","e","d"," ","$","1","5","0",",","0","0","0">>,
              NoText, "kalshi", "trending", 350, 700, 1000, "2026-12-31"),
       Market("kl-B", <<"B","T","C"," "," ","u","p","!">>,
              NoText, "kalshi", "trending", 500, 400, 2000, "2026-12-31"),
       Market("kl-C", <<"F","e","d"," ","c","u","t","?">>,
              NoText, "kalshi", "trending", 320, 500, 3000, "2026-12-31"),
       Market("kl-D", <<"F","e","d"," ","c","u","t"," ","n","o","w"," ","o","r"," ","l","a","t","e","r">>,
              NoText, "kalshi", "trending", 100, 850, 4000, "2026-12-31"),
       Market("kl-E", <<"!","!">>,
              NoText, "kalshi", "trending", 100, 700, 5000, "2026-12-31"),
       Market("kl-F", <<"R","a","i","n"," ","t","o","d","a","y">>,
              NoText, "kalshi", "trending", 220, 640, 6000, "2026-12-31"),
       Market("kl-G", <<"R","a","i","n">>,
              NoText, "kalshi", "trending", 260, 640, 7000, "2026-12-31")
    >>

\* the records of pool whose ids are in ids, in the order of pool
Pick(pool, ids) == LET Picked(m) == m.id \in ids IN SelectSeq(pool, Picked)

\* what getCachedMarkets can return: Polymarket records, then Kalshi records
Snapshots ==
    { Pick(PolymarketPool, pms) \o Pick(KalshiPool, kls) :
        pms \in SUBSET Ids(PolymarketPool), kls \in SUBSET Ids(KalshiPool) }

InitDetect ==
    /\ InitProgram
    /\ raw = NoRaw
    /\ produced = <<>>
    /\ snapshot \in Snapshots
    /\ matches = NotComputed
    /\ spreads = NotComputed
    /\ titlePair = NoTitles
    /\ measured = NotMeasured

programVars ==
    << now, marketCache, slugToMarketId, wsConnection, sockets, reconnectAttempts,
       timers, lastFullRefresh, cachedMarkets, lastFetchTime, isLiveData, req,
       crashed, lastMessage, shutdown, lastReturn, hist, lastOpen, disconnects >>

\* api-clients: findMatchingMarkets(markets) on the snapshot
FindMatchingMarkets ==
    /\ ~matches.computed
    /\ matches' = Computed(findMatchingMarkets(snapshot))
    /\ UNCHANGED << programVars, raw, produced, snapshot, spreads, titlePair, measured >>

\* api-clients: detectSpreadOpportunities() from line 209 on
DetectSpreadOpportunities ==
    /\ ~spreads.computed
    /\ spreads' = Computed(detectSpreadOpportunities(snapshot))
    /\ UNCHANGED << programVars, raw, produced, snapshot, matches, titlePair, measured >>

NextDetect == FindMatchingMarkets \/ DetectSpreadOpportunities

SpecDetect == InitDetect /\ [][NextDetect]_vars

\* ------------------------------------------- calculateSimilarity on its own
FedFedCut == <<"F","e","d"," ","F","e","d"," ","c","u","t">>

\* the titles of the two pools, and one that repeats a word
Titles ==
    { PolymarketPool[i].title : i \in 1..Len(PolymarketPool) }
    \cup { KalshiPool[i].title : i \in 1..Len(KalshiPool) }
    \cup { FedFedCut }

InitSimilarity ==
    /\ InitProgram
    /\ raw = NoRaw
    /\ produced = <<>>
    /\ snapshot = <<>>
    /\ matches = NotComputed
    /\ spreads = NotComputed
    /\ titlePair \in Titles \X Titles
    /\ measured = NotMeasured

\* api-clients: calculateSimilarity(title1, title2)
CalculateSimilarity ==
    /\ ~measured.computed
    /\ measured' = [computed |-> TRUE,
                    similarity |-> calculateSimilarity(titlePair[1], titlePair[2])]
    /\ UNCHANGED << programVars, raw, produced, snapshot, matches, spreads, titlePair >>

NextSimilarity == CalculateSimilarity

SpecSimilarity == InitSimilarity /\ [][NextSimilarity]_vars

\* ------------------------------------------- the adapters on one listing
\* what a source can send as a price: nothing readable, 0, a negative number,
\* values inside the range, 1 and more than 1
PriceValues == { NaN, 0, 0 - 250, 5, 420, 1000, 1500 }
\* outcomePrices with no, one or two entries
OutcomePrices ==
    { <<>> } \cup { << y >> : y \in PriceValues }
             \cup { << y, n >> : y \in PriceValues, n \in PriceValues }
\* what Kalshi can send as a bid or an ask, in cents
CentValues == { NaN, 0, 0 - 40, 30, 250 }

RawListings ==
    { [adapter |-> a, listing |-> RawPm("9", Rain, "s9", prices, 1234, FALSE)] :
        a \in {"events", "direct"}, prices \in OutcomePrices }
    \cup
    { [adapter |-> "kalshi", listing |-> RawKalshi("Z", FedCut, yb, ya, nb, na, "open")] :
        yb \in CentValues, ya \in CentValues, nb \in CentValues, na \in CentValues }

InitAdapters ==
    /\ InitProgram
    /\ raw \in RawListings
    /\ produced = <<>>
    /\ snapshot = <<>>
    /\ matches = NotComputed
    /\ spreads = NotComputed
    /\ titlePair = NoTitles
    /\ measured = NotMeasured

\* the Market of each listing
MarketsOf(listings) == [i \in 1..Len(listings) |-> listings[i].m]

\* polymarket-ws: fetchAllPolymarketEvents on a response with this one listing
EventsPass ==
    /\ raw.adapter = "events" /\ produced = <<>>
    /\ produced' = MarketsOf(EventsMarkets(<< RawEvent(Rain, << raw.listing >>) >>))
    /\ UNCHANGED << programVars, raw, snapshot, matches, spreads, titlePair, measured >>

\* polymarket-ws: fetchPolymarketMarketsDirect on a response with this one listing
DirectPass ==
    /\ raw.adapter = "direct" /\ produced = <<>>
    /\ produced' = MarketsOf(DirectMarkets(<< raw.listing >>))
    /\ UNCHANGED << programVars, raw, snapshot, matches, spreads, titlePair, measured >>

\* api-clients: fetchKalshiMarkets on a response with this one listing
KalshiPass ==
    /\ raw.adapter = "kalshi" /\ produced = <<>>
    /\ produced' = KalshiMarkets(<< raw.listing >>)
    /\ UNCHANGED << programVars, raw, snapshot, matches, spreads, titlePair, measured >>

NextAdapters == EventsPass \/ DirectPass \/ KalshiPass

SpecAdapters == InitAdapters /\ [][NextAdapters]_vars

\* ------------------------------------------------------------------ claims
\* call r leaves fetchAllMarkets through its merge (api-clients 113-125)
Returns(r) == req[r].pc = "fetching" /\ req'[r].pc = "idle"

PolymarketIds(markets) ==
    { markets[i].id : i \in { j \in 1..Len(markets) : markets[j].platform = "polymarket" } }
KalshiIds(markets) ==
    { markets[i].id : i \in { j \in 1..Len(markets) : markets[j].platform = "kalshi" } }

\* C1: merge is atomic for readers: while one refresh is in flight and no other
\* refresh has run since it started, a reader sees the record set it saw when
\* the refresh started (the set after the refresh exists only once the merge
\* has run); it never sees a mix of the two.
C1_MergeAtomicForReaders ==
    \A r \in Requests :
        (req[r].pc = "fetching" /\ hist[r].alone) =>
            Ids(getCachedMarkets) = hist[r].pre

\* C2: on a process that has never loaded live data, a refresh in which both
\* sources yield zero records returns the non-empty static fallback list.
C2_ColdStartFallback ==
    ( /\ lastReturn.refreshed /\ ~lastReturn.wasLive
      /\ Len(lastReturn.polymarketMarkets) = 0 /\ Len(lastReturn.kalshiMarkets) = 0 )
    => /\ Objects(lastReturn.ret) = fallbackMarkets
       /\ Len(lastReturn.ret) > 0

\* C2 witness: a first refresh whose three fetches all failed has returned
C2_Witness ==
    /\ lastReturn.refreshed /\ ~lastReturn.wasLive
    /\ lastReturn.ev = "failed" /\ lastReturn.dir = "failed" /\ lastReturn.kl = "failed"
    /\ Len(lastReturn.polymarketMarkets) = 0 /\ Len(lastReturn.kalshiMarkets) = 0
    /\ Len(lastReturn.ret) = 6

\* C3: a refresh in which every source fetch fails, after live data was loaded,
\* keeps every record of the previous snapshot, of both platforms.
C3_FailedRefreshRetainsSnapshot ==
    [][ \A r \in Requests :
          ( /\ Returns(r) /\ isLiveData
            /\ lastReturn'.ev = "failed" /\ lastReturn'.dir = "failed"
            /\ lastReturn'.kl = "failed" )
          => Ids(cachedMarkets) \subseteq Ids(cachedMarkets') ]_vars

\* C4: when exactly one source fails in a refresh and the other succeeds, the
\* records of the failed source that were cached before are still served after.
C4_FailedSourceKeepsCachedRecords ==
    [][ \A r \in Requests :
          (Returns(r) /\ isLiveData) =>
            /\ ( /\ lastReturn'.kl = "failed"
                 /\ (lastReturn'.ev = "ok" \/ lastReturn'.dir = "ok") )
               => KalshiIds(fetchAllMarketsView) \subseteq Ids(cachedMarkets')
            /\ ( /\ lastReturn'.kl = "ok"
                 /\ lastReturn'.ev = "failed" /\ lastReturn'.dir = "failed" )
               => PolymarketIds(fetchAllMarketsView) \subseteq Ids(cachedMarkets') ]_vars

\* C5: every fetchAllMarkets call eventually returns, even when a source never
\* answers, because each adapter call is cut off by a bounded timeout.
C5_EveryCallReturns ==
    \A r \in Requests : (req[r].pc = "fetching") ~> (req[r].pc = "idle")

\* the live feed hands message to handleRTDSMessage in this step
Handles(message) == \E s \in SocketIds : WsMessage(s, message)

\* a message the claim calls dropped: its slug is not in the slug index, or its
\* price is not strictly between 0 and 1
Dropped(message) ==
    \/ message.market_slug \notin DOMAIN slugToMarketId
    \/ ~Inside(message.price)

\* C6: handling a dropped message leaves the Repository unchanged: the same
\* records, with the same prices, in marketCache, in the array served and in
\* what every reader sees.
C6_DroppedMessageChangesNothing ==
    [][ \A message \in Messages :
          (Handles(message) /\ Dropped(message)) =>
            /\ marketCache' = marketCache
            /\ cachedMarkets' = cachedMarkets
            /\ getCachedMarkets' = getCachedMarkets
            /\ fetchAllMarketsView' = fetchAllMarketsView ]_vars

\* C6 witness: a trade for a slug that no adapter indexed was handled while
\* the Repository held live Polymarket records
C6_Witness ==
    /\ lastMessage.socket # NULL
    /\ lastMessage.message.topic = "activity"
    /\ lastMessage.message.market_slug \notin DOMAIN slugToMarketId
    /\ Len(marketCache) > 0

SameButPrices(a, b) == [a EXCEPT !.yesPrice = b.yesPrice, !.noPrice = b.noPrice] = b

\* between two lists of records, only the prices of the record(s) with this id differ
OnlyPricesOf(id, before, after) ==
    /\ Len(after) = Len(before)
    /\ \A i \in 1..Len(before) :
          IF before[i].id = id THEN SameButPrices(after[i], before[i])
          ELSE after[i] = before[i]

\* C7: a patch that is applied changes only yesPrice and noPrice of the market
\* its slug resolves to: that market's other fields, every other market and
\* the set of ids are unchanged, in marketCache and in what readers see.
C7_PatchChangesOnlyPrices ==
    [][ \A message \in Messages :
          (Handles(message) /\ Applies(message)) =>
            LET id == slugToMarketId[message.market_slug]
            IN  /\ OnlyPricesOf(id, marketCache, marketCache')
                /\ OnlyPricesOf(id, getCachedMarkets, getCachedMarkets')
                /\ OnlyPricesOf(id, fetchAllMarketsView, fetchAllMarketsView')
                /\ MapGet(marketCache', id) # MapGet(marketCache, id)
                   => \/ MapGet(marketCache', id).noPrice = OneMinus(MapGet(marketCache', id).yesPrice)
                      \/ MapGet(marketCache', id).yesPrice = OneMinus(MapGet(marketCache', id).noPrice)
          ]_vars

\* C7 witness: a trade on the second of two cached Polymarket markets was
\* applied, next to Kalshi records in the array served
C7_Witness ==
    /\ lastMessage.message = Trade("activity", "s2", "No", 995)
    /\ Len(marketCache) = 2
    /\ MapHas(marketCache, "pm-2")
    /\ marketCache[2].id = "pm-2" /\ marketCache[2].noPrice = 995
    /\ KalshiIds(fetchAllMarketsView) # {}

\* the client has given up: the cap is reached, the last socket has closed and
\* no reconnect is pending
GaveUp ==
    /\ reconnectAttempts = MAX_RECONNECT_ATTEMPTS
    /\ timers = <<>>
    /\ \A s \in SocketIds : ~Alive(sockets[s])

\* C8: once the reconnect cap is reached and the next disconnect has scheduled
\* no reconnect, no live-feed connection is ever opened again, neither by a
\* timer nor by a later refresh.
C8_GivesUpForGood == [][GaveUp => GaveUp']_vars

\* C9: at most one physical live-feed connection (connecting or open) exists.
C9_AtMostOneConnection ==
    Cardinality({ s \in SocketIds : sockets[s] \in {"CONNECTING", "OPEN"} }) <= 1

\* C10: after closeWebSocket has closed the connection, no reconnect is
\* scheduled and no live-feed connection is opened.
C10_ShutdownIsTerminal ==
    [][ shutdown =>
          /\ Len(timers') <= Len(timers)
          /\ \A s \in SocketIds : sockets'[s] = "CONNECTING" => sockets[s] = "CONNECTING"
      ]_vars


\* C11: matching is injective in both directions: in the list returned by
\* findMatchingMarkets no Kalshi record appears in more than one pair and no
\* Polymarket record appears in more than one pair.
C11_MatchingInjective ==
    \A i, j \in 1..Len(matches.list) :
        i # j => /\ matches.list[i].kalshi.id # matches.list[j].kalshi.id
                 /\ matches.list[i].polymarket.id # matches.list[j].polymarket.id

\* C11 witness: the matcher left a Polymarket market without a pair although a
\* Kalshi market similar enough to it is in the snapshot, paired with another
C11_Witness ==
    /\ matches.computed
    /\ Len(matches.list) >= 2
    /\ \E k \in 1..Len(snapshot), i \in 1..Len(matches.list) :
          /\ snapshot[k].platform = "polymarket"
          /\ \A j \in 1..Len(matches.list) : matches.list[j].polymarket.id # snapshot[k].id
          /\ Above(calculateSimilarity(snapshot[k].title, matches.list[i].kalshi.title), 4)

\* C12: detectSpreadOpportunities returns at most 20 entries, ordered by
\* spreadPercent non-increasing, and they are the top 20 of the curated,
\* cross-source and single-source candidates: every candidate left out has a
\* spreadPercent no greater than that of every entry returned.
C12_TopTwentyBySpread ==
    spreads.computed =>
        LET result == spreads.list
            candidates == Candidates(snapshot)
        IN  /\ Len(result) <= 20
            /\ Len(result) = Min(20, Len(candidates))
            /\ \A i \in 1..(Len(result) - 1) :
                  result[i].spreadPercent >= result[i + 1].spreadPercent
            /\ Range(result) \subseteq Range(candidates)
            /\ \A i, j \in 1..Len(result) : i # j => result[i].id # result[j].id
            /\ \A c \in Range(candidates) \ Range(result) :
                  \A i \in 1..Len(result) : c.spreadPercent <= result[i].spreadPercent

\* C12 witness: more than 20 candidates, 20 returned, and a candidate with a
\* smaller spread than the last one returned was cut
C12_Witness ==
    /\ spreads.computed
    /\ Len(Candidates(snapshot)) > 20
    /\ Len(spreads.list) = 20
    /\ \E c \in Range(Candidates(snapshot)) :
          /\ c \notin Range(spreads.list)
          /\ c.spreadPercent < spreads.list[20].spreadPercent
    /\ \E i \in 1..20 : spreads.list[i].polymarketId = "pm-2" /\ spreads.list[i].kalshiId = "kl-B"

\* C13: every record an adapter pass produces has 0.01 <= yesPrice <= 0.99 and
\* 0.01 <= noPrice <= 0.99, whatever the source sent as prices: missing, zero,
\* negative, above 1 or not a number.
C13_AdapterPricesClamped ==
    \A i \in 1..Len(produced) :
        /\ 10 <= produced[i].yesPrice /\ produced[i].yesPrice <= 990
        /\ 10 <= produced[i].noPrice /\ produced[i].noPrice <= 990

\* C13 witness: a Polymarket listing with a yes price above 1 and no second
\* price was ingested, and a Kalshi listing with a negative and a missing quote
C13_Witness ==
    /\ Len(produced) = 1
    /\ \/ /\ raw.adapter = "events" /\ raw.listing.outcomePrices = << 1500 >>
          /\ produced[1].yesPrice = 990 /\ produced[1].noPrice = 10
       \/ /\ raw.adapter = "kalshi"
          /\ raw.listing.yes_bid = 0 - 40 /\ raw.listing.yes_ask = 30
          /\ raw.listing.no_bid = NaN
          /\ produced[1].yesPrice = 10 /\ produced[1].noPrice = 500

\* every record of the list has both prices strictly between 0 and 1
StrictlyInside(list) ==
    \A i \in 1..Len(list) :
        /\ Inside(list[i].yesPrice) /\ list[i].yesPrice # 1000
        /\ Inside(list[i].noPrice) /\ list[i].noPrice # 1000

\* C14: in every reachable state, after any refreshes and live-feed patches,
\* every record in the Repository has yesPrice and noPrice strictly greater
\* than 0 and strictly less than 1.
C14_PricesStrictlyInside ==
    /\ StrictlyInside(marketCache)
    /\ StrictlyInside(fetchAllMarketsView)
    /\ StrictlyInside(getCachedMarkets)

\* the call r enters fetchAllMarkets in this step and issues no request
ServedFromCache(r) ==
    /\ req'[r].pc = "idle"
    /\ lastReturn'.call = r /\ ~lastReturn'.refreshed
    /\ lastReturn'.ret = cachedMarkets
    /\ cachedMarkets' = cachedMarkets

Exposed(list) == { << list[i].id, list[i].yesPrice, list[i].noPrice >> : i \in 1..Len(list) }

NoRefreshInFlight == \A r \in Requests : req[r].pc = "idle"

\* C16: no private copy of the snapshot drifts: whenever no refresh is in
\* flight, the list served by fetchAllMarkets, getCachedMarkets and the lookups
\* by id expose the same market ids with the same prices for each id.
C16_NoPrivateCopyDrifts ==
    NoRefreshInFlight =>
        /\ Exposed(fetchAllMarketsView) = Exposed(getCachedMarkets)
        /\ \A i \in 1..Len(cachedMarkets) :
              LET m == getCachedMarketById(cachedMarkets[i].id)
              IN  << m.id, m.yesPrice, m.noPrice >> \in Exposed(fetchAllMarketsView)

\* C17: given a snapshot with the Polymarket market "Will BTC hit $150k?" at
\* 0.42 and the Kalshi market "Bitcoin to exceed $150,000" at 0.35, the matcher
\* pairs the two with similarity greater than 0.4 and the detector emits for
\* that pair one cross-source opportunity with spreadPercent 7.0 and direction
\* polymarket_higher.
C17_BtcPairDetected ==
    Ids(snapshot) = {"pm-1", "kl-A"} =>
        /\ matches.computed =>
              \E i \in 1..Len(matches.list) :
                  /\ matches.list[i].polymarket.id = "pm-1"
                  /\ matches.list[i].kalshi.id = "kl-A"
                  /\ Above(matches.list[i].similarity, 4)
        /\ spreads.computed =>
              Cardinality({ i \in 1..Len(spreads.list) :
                              /\ spreads.list[i].polymarketId = "pm-1"
                              /\ spreads.list[i].kalshiId = "kl-A"
                              /\ spreads.list[i].spreadPercent = 70
                              /\ spreads.list[i].spreadDirection = "polymarket_higher" }) = 1

\* C18: fetchKalshiMarkets and fetchPolymarketMarkets never throw or reject on
\* a failed request; a call whose request(s) failed resolves to an empty list
\* for that pass.  (lastReturn holds what the two entry points resolved to in
\* the last refresh.)
C18_FailedPassYieldsEmptyList ==
    lastReturn.refreshed =>
        /\ lastReturn.kl = "failed" => Len(lastReturn.kalshiMarkets) = 0
        /\ (lastReturn.ev = "failed" /\ lastReturn.dir = "failed")
              => Len(lastReturn.polymarketMarkets) = 0

\* the ids the sources of the model give their markets
SourceIds == { "1", "2", "3", "9", "A", "B", "C", "Z", "fallback-1", "fallback-2", "fallback-3" }

\* the ids that start with each prefix
Prefixed == [prefix \in {"pm-", "kl-"} |-> { prefix \o rest : rest \in SourceIds }]

\* id.startsWith(prefix)
startsWith(id, prefix) == id \in Prefixed[prefix]

\* ids are pairwise distinct, and each carries the prefix of its platform
WellIdentified(list) ==
    /\ \A i, j \in 1..Len(list) : i # j => list[i].id # list[j].id
    /\ \A i \in 1..Len(list) :
          \/ startsWith(list[i].id, "pm-") /\ list[i].platform = "polymarket"
          \/ startsWith(list[i].id, "kl-") /\ list[i].platform = "kalshi"

\* C19: in every snapshot served, market ids are pairwise distinct, every id
\* carries its source prefix (pm- or kl-), and the platform of the record under
\* an id agrees with the prefix; holding in every state, across refreshes and
\* patches, the platform under an id is the one its prefix names and so never
\* changes.
C19_IdsDistinctAndPrefixed ==
    /\ WellIdentified(fetchAllMarketsView)
    /\ WellIdentified(getCachedMarkets)
    /\ WellIdentified(Objects(lastReturn.ret))

\* C19 witness: a second refresh has listed again a Polymarket market that was
\* cached and patched, and the snapshot holds records of both platforms
C19_Witness ==
    /\ lastReturn.refreshed /\ lastReturn.wasLive /\ lastReturn.ev = "ok"
    /\ lastMessage.socket # NULL
    /\ Len(marketCache) >= 2
    /\ PolymarketIds(fetchAllMarketsView) = Ids(marketCache)
    /\ KalshiIds(fetchAllMarketsView) # {}

\* C20: refresh is an additive union without removal: once live data is
\* loaded, every market id in the snapshot before a refresh is still in the
\* snapshot after it, for both platforms, even when the latest response of the
\* source no longer lists the market (stated for the refreshes none of whose
\* requests failed).
C20_RefreshNeverRemoves ==
    [][ \A r \in Requests :
          ( /\ Returns(r) /\ isLiveData
            /\ lastReturn'.kl = "ok"
            /\ lastReturn'.ev \in {"ok", "none"} /\ lastReturn'.dir \in {"ok", "none"} )
          => Ids(cachedMarkets) \subseteq Ids(cachedMarkets') ]_vars

\* C20 as amended: no step removes a Polymarket market from the Polymarket
\* cache, so once live data is loaded every Polymarket id that getCachedMarkets
\* returns is returned after any refresh too, also when the latest response no
\* longer lists the market; the Kalshi records of the snapshot are those of the
\* latest Kalshi response whenever a refresh brings any record.
C20_PolymarketNeverRemoved ==
    [][ /\ Ids(marketCache) \subseteq Ids(marketCache')
        /\ isLiveData =>
              PolymarketIds(getCachedMarkets) \subseteq PolymarketIds(getCachedMarkets')
        /\ \A r \in Requests :
              (Returns(r) /\ Len(lastReturn'.polymarketMarkets) + Len(lastReturn'.kalshiMarkets) > 0)
              => KalshiIds(fetchAllMarketsView') = Ids(lastReturn'.kalshiMarkets) ]_vars

\* C20 witness: market 3 was listed, then a later /events response listed
\* market 1 at a new price and market 3 no more as open; the refresh has
\* returned and market 3 is still cached and served
C20_Witness ==
    /\ lastReturn.refreshed /\ lastReturn.wasLive /\ lastReturn.ev = "ok"
    /\ MapHas(marketCache, "pm-3") /\ MapHas(marketCache, "pm-1")
    /\ MapGet(marketCache, "pm-1").yesPrice = 550
    /\ "pm-3" \in Ids(lastReturn.ret)
    /\ "pm-3" \in Ids(getCachedMarkets)

\* socket s emits "open" in this step
Opens(s) == sockets[s] = "CONNECTING" /\ sockets'[s] = "OPEN"

\* C21: every time a live-feed connection reaches the open state, one
\* subscription request (topic "activity", type "trades") is sent on that same
\* connection and the reconnect-attempt counter becomes 0.
C21_SubscribesOnOpen ==
    [][ \A s \in SocketIds :
          Opens(s) => lastOpen'.socket = s /\ lastOpen'.sentOn = s /\ reconnectAttempts' = 0
      ]_vars

\* socket s emits "close" in this step: the connection is lost, or the attempt
\* to connect has failed
Closes(s) == Alive(sockets[s]) /\ sockets'[s] \in {"CLOSED", "NONE"}

\* C22: each disconnect or failed connect below the cap schedules exactly one
\* reconnect, and the k-th one since the last successful open (k = 1..5) is
\* scheduled with a delay of 5000 ms * k.
C22_LinearBackoff ==
    [][ \A s \in SocketIds :
          (Closes(s) /\ disconnects < MAX_RECONNECT_ATTEMPTS)
          => timers' = Append(timers, 5000 * (disconnects + 1)) ]_vars

\* C22 witness: a connection had opened, and the fifth disconnect in a row since
\* then has scheduled the reconnect of 25 s
C22_Witness ==
    /\ lastOpen.socket # NULL
    /\ disconnects = 5
    /\ Len(timers) > 0 /\ timers[Len(timers)] = 25000

\* no live-feed connection has been created so far
NeverConnected ==
    /\ wsConnection = NULL /\ ~shutdown
    /\ \A s \in SocketIds : sockets[s] = "NONE"

\* the refresh of getPolymarketMarkets made for call r completes in this step
RefreshCompletes(r) ==
    /\ req[r].pc = "fetching" /\ ~req[r].pmDone
    /\ req'[r].pmDone \/ req'[r].pc = "idle"

\* C23: the live feed is started only once data exists: no connection is ever
\* opened while the Polymarket cache is empty, and the first connection is
\* opened by the first refresh after which the cache is non-empty.
C23_FeedStartsWithData ==
    [][ /\ (\E s \in SocketIds : sockets'[s] # "NONE") => Len(marketCache') > 0
        /\ \A r \in Requests :
              (NeverConnected /\ RefreshCompletes(r) /\ Len(marketCache') > 0)
              => wsConnection' # NULL /\ sockets'[wsConnection'] = "CONNECTING"
        /\ (NeverConnected /\ ~NeverConnected')
              => \E r \in Requests : RefreshCompletes(r) ]_vars

\* C23 witness: the previous call fetched Polymarket and came back with no
\* record; the refresh of the present call has stored records and has opened
\* the connection
C23_Witness ==
    /\ lastReturn.refreshed /\ lastReturn.ev # "none"
    /\ Len(lastReturn.polymarketMarkets) = 0
    /\ \E r \in Requests :
          /\ req[r].pc = "fetching" /\ req[r].pmDone /\ req[r].ev # "none"
          /\ lastFullRefresh = req[r].now
    /\ Len(marketCache) > 0
    /\ wsConnection # NULL /\ sockets[wsConnection] = "CONNECTING"

\* the set of words of the normalized title
WordSet(title) == Range(split(normalizeTitle(title)))

\* the two quotients are the same number
SameNumber(a, b) == a.n * b.d = b.n * a.d

\* C24: calculateSimilarity(t1, t2) is |W1 \cap W2| / |W1 \cup W2| for the
\* sets W1 and W2 of the words of the normalized titles; it is symmetric in its
\* arguments and never exceeds 1, also for titles that repeat a word.
C24_SimilarityIsJaccard ==
    measured.computed =>
        LET W1 == WordSet(titlePair[1])
            W2 == WordSet(titlePair[2])
        IN  /\ SameNumber(measured.similarity,
                          [n |-> Cardinality(W1 \cap W2), d |-> Cardinality(W1 \cup W2)])
            /\ SameNumber(measured.similarity,
                          calculateSimilarity(titlePair[2], titlePair[1]))
            /\ measured.similarity.n <= measured.similarity.d

\* the Polymarket records of the snapshot in iteration order, its Kalshi records
PolymarketOrder == SelectSeq(snapshot, IsPolymarket)
KalshiRecords == Range(SelectSeq(snapshot, IsKalshiMarket))

\* the pairs of matches made for the Polymarket record at position k
PairsOf(k) ==
    { j \in 1..Len(matches.list) : matches.list[j].polymarket = PolymarketOrder[k] }

\* the Kalshi records claimed by the Polymarket records before position k
ClaimedBefore(k) ==
    { matches.list[j].kalshi.id :
        j \in { x \in 1..Len(matches.list) : \E h \in 1..(k - 1) : x \in PairsOf(h) } }

Unclaimed(k) == { kl \in KalshiRecords : kl.id \notin ClaimedBefore(k) }

\* C25: the matcher is greedy in snapshot order: each Polymarket record, in
\* iteration order, is paired with a Kalshi record of maximal similarity among
\* those no earlier Polymarket record has claimed; a record that emits no pair
\* claims nothing, and none of its unclaimed candidates was acceptable.
C25_GreedyInSnapshotOrder ==
    matches.computed =>
        /\ \A j \in 1..Len(matches.list) : \E k \in 1..Len(PolymarketOrder) : j \in PairsOf(k)
        /\ \A i, j \in 1..Len(matches.list), h, k \in 1..Len(PolymarketOrder) :
              (i < j /\ i \in PairsOf(h) /\ j \in PairsOf(k)) => h < k
        /\ \A k \in 1..Len(PolymarketOrder) :
              LET pm == PolymarketOrder[k]
              IN  /\ \A j \in PairsOf(k) :
                        LET pair == matches.list[j]
                        IN  /\ pair.kalshi \in Unclaimed(k)
                            /\ pair.similarity = calculateSimilarity(pm.title, pair.kalshi.title)
                            /\ \A kl \in Unclaimed(k) :
                                  LET other == calculateSimilarity(pm.title, kl.title)
                                  IN  other.n * pair.similarity.d
                                         <= pair.similarity.n * other.d
                  /\ PairsOf(k) = {} =>
                        \A kl \in Unclaimed(k) :
                            ~Above(calculateSimilarity(pm.title, kl.title), 4)

\* C25 witness: "Btc up" claimed the Kalshi record "Btc up now" is most similar
\* to, so that one has no pair; "Fed cut" had two unclaimed candidates of
\* different similarity and is paired with the better one
C25_Witness ==
    /\ matches.computed
    /\ {"pm-2", "pm-3", "pm-4", "kl-B", "kl-C", "kl-D"} \subseteq Ids(snapshot)
    /\ \E i, j \in 1..Len(matches.list) :
          /\ matches.list[i].polymarket.id = "pm-2" /\ matches.list[i].kalshi.id = "kl-B"
          /\ matches.list[j].polymarket.id = "pm-4" /\ matches.list[j].kalshi.id = "kl-C"
    /\ \A j \in 1..Len(matches.list) : matches.list[j].polymarket.id # "pm-3"

\* the similarities of the Polymarket record at position k to the Kalshi
\* records no earlier record has claimed
CandidatesOf(k) ==
    { calculateSimilarity(PolymarketOrder[k].title, kl.title) : kl \in Unclaimed(k) }

\* C26: the acceptance minimum is 0.4: every emitted pair has similarity at
\* least 0.4, and a Polymarket record whose best unclaimed Kalshi candidate has
\* similarity at least 0.4, exactly 0.4 included, is paired.
C26_AcceptsFromPointFour ==
    matches.computed =>
        /\ \A j \in 1..Len(matches.list) :
              matches.list[j].similarity.n * 10 >= 4 * matches.list[j].similarity.d
        /\ \A k \in 1..Len(PolymarketOrder) :
              (\E c \in CandidatesOf(k) : c.n * 10 >= 4 * c.d) => PairsOf(k) # {}

\* C26 as amended: every emitted pair has similarity greater than 0.4, and a
\* Polymarket record is paired exactly when its best unclaimed Kalshi candidate
\* has similarity greater than 0.4; at exactly 0.4 no pair is emitted.
C26_AcceptsAbovePointFour ==
    matches.computed =>
        /\ \A j \in 1..Len(matches.list) :
              matches.list[j].similarity.n * 10 > 4 * matches.list[j].similarity.d
        /\ \A k \in 1..Len(PolymarketOrder) :
              (\E c \in CandidatesOf(k) : c.n * 10 > 4 * c.d) <=> PairsOf(k) # {}

\* C26 witness: the best unclaimed candidate of "Fed cut" shares 2 words of 5
\* with it and no pair is emitted for it, while "Btc up now" is paired at 2/3
C26_Witness ==
    /\ matches.computed
    /\ {"pm-3", "pm-4", "kl-B", "kl-D"} \subseteq Ids(snapshot)
    /\ "kl-C" \notin Ids(snapshot) /\ "pm-2" \notin Ids(snapshot)
    /\ \E k \in 1..Len(PolymarketOrder) :
          /\ PolymarketOrder[k].id = "pm-4"
          /\ [n |-> 2, d |-> 5] \in CandidatesOf(k)
          /\ PairsOf(k) = {}
    /\ \E j \in 1..Len(matches.list) :
          /\ matches.list[j].polymarket.id = "pm-3"
          /\ matches.list[j].similarity = [n |-> 2, d |-> 3]

\* the opportunities of the returned list made for the pair
OpportunitiesOf(pair) ==
    { i \in 1..Len(spreads.list) :
        /\ spreads.list[i].polymarketId = pair.polymarket.id
        /\ spreads.list[i].kalshiId = pair.kalshi.id }

\* the list returned holds every candidate: nothing was cut at 20
NothingCut == matches.computed /\ spreads.computed /\ Len(spreads.list) < 20

\* C27: a matched pair becomes a cross-source candidate exactly when
\* |polymarketYes - kalshiYes| * 100 is at least 2, and the spreadPercent of the
\* candidate is that value rounded to one decimal (prices are thousandths and
\* spreadPercent tenths of a percent, so the value is the difference).
C27_CandidateFromTwoPercent ==
    NothingCut =>
        \A j \in 1..Len(matches.list) :
            LET pair == matches.list[j]
                value == Abs(pair.polymarket.yesPrice - pair.kalshi.yesPrice)
            IN  /\ value >= 20 <=> OpportunitiesOf(pair) # {}
                /\ Cardinality(OpportunitiesOf(pair)) <= 1
                /\ \A i \in OpportunitiesOf(pair) : spreads.list[i].spreadPercent = value

\* C28: the confidence of every cross-source opportunity is a function of the
\* similarity of its pair only: high if similarity > 0.7, medium if
\* 0.5 < similarity <= 0.7, low otherwise.
C28_ConfidenceFromSimilarity ==
    NothingCut =>
        \A j \in 1..Len(matches.list) :
            LET sim == matches.list[j].similarity
            IN  \A i \in OpportunitiesOf(matches.list[j]) :
                    spreads.list[i].confidence =
                        IF sim.n * 10 > 7 * sim.d THEN "high"
                        ELSE IF sim.n * 10 > 5 * sim.d THEN "medium"
                        ELSE "low"

\* C28 witness: one list with an opportunity of each confidence, the low one
\* for a pair of similarity exactly 0.5
C28_Witness ==
    /\ NothingCut
    /\ \E h, m, l \in 1..Len(matches.list) :
          /\ matches.list[h].similarity = [n |-> 2, d |-> 2]
          /\ \E i \in OpportunitiesOf(matches.list[h]) : spreads.list[i].confidence = "high"
          /\ matches.list[m].similarity = [n |-> 2, d |-> 3]
          /\ \E i \in OpportunitiesOf(matches.list[m]) : spreads.list[i].confidence = "medium"
          /\ matches.list[l].similarity = [n |-> 1, d |-> 2]
          /\ \E i \in OpportunitiesOf(matches.list[l]) : spreads.list[i].confidence = "low"

\* C29: for every cross-source opportunity spreadDirection names the side whose
\* yesPrice is higher (polymarket_higher iff the Polymarket price is higher),
\* and polymarket_higher when the two prices are equal.
C29_DirectionNamesHigherSide ==
    NothingCut =>
        \A j \in 1..Len(matches.list) :
            LET pmPrice == matches.list[j].polymarket.yesPrice
                klPrice == matches.list[j].kalshi.yesPrice
            IN  \A i \in OpportunitiesOf(matches.list[j]) :
                    /\ spreads.list[i].polymarketYesPrice = pmPrice
                    /\ spreads.list[i].kalshiYesPrice = klPrice
                    /\ pmPrice > klPrice => spreads.list[i].spreadDirection = "polymarket_higher"
                    /\ klPrice > pmPrice => spreads.list[i].spreadDirection = "kalshi_higher"
                    /\ pmPrice = klPrice => spreads.list[i].spreadDirection = "polymarket_higher"

\* C29 witness: one list with an opportunity in each direction
C29_Witness ==
    /\ NothingCut
    /\ \E a, b \in 1..Len(matches.list) :
          /\ matches.list[a].polymarket.yesPrice > matches.list[a].kalshi.yesPrice
          /\ \E i \in OpportunitiesOf(matches.list[a]) :
                spreads.list[i].spreadDirection = "polymarket_higher"
          /\ matches.list[b].polymarket.yesPrice < matches.list[b].kalshi.yesPrice
          /\ \E i \in OpportunitiesOf(matches.list[b]) :
                spreads.list[i].spreadDirection = "kalshi_higher"

\* the single-source opportunities of the returned list made for market m
SingleSourceOf(m) ==
    { i \in 1..Len(spreads.list) :
        \/ /\ m.platform = "polymarket"
           /\ spreads.list[i].polymarketId = m.id /\ spreads.list[i].kalshiId = "null"
        \/ /\ m.platform = "kalshi"
           /\ spreads.list[i].kalshiId = m.id /\ spreads.list[i].polymarketId = "null" }

\* C30: before the cut at 20 the candidates hold exactly one single-source
\* opportunity for each market of the snapshot with
\* |yesPrice - (1 - noPrice)| * 100 > 5 and none for any other market; each has
\* confidence medium and carries the id and the yes price of the market's
\* platform only, those of the other platform being null.
C30_SingleSourceAboveFive ==
    NothingCut =>
        \A k \in 1..Len(snapshot) :
            LET m == snapshot[k]
                value == Abs(m.yesPrice - (1000 - m.noPrice))
            IN  /\ value > 50 <=> SingleSourceOf(m) # {}
                /\ Cardinality(SingleSourceOf(m)) <= 1
                /\ \A i \in SingleSourceOf(m) :
                      /\ spreads.list[i].confidence = "medium"
                      /\ spreads.list[i].spreadPercent = value
                      /\ m.platform = "polymarket" =>
                            /\ spreads.list[i].polymarketYesPrice = m.yesPrice
                            /\ spreads.list[i].kalshiYesPrice = NULL
                      /\ m.platform = "kalshi" =>
                            /\ spreads.list[i].kalshiYesPrice = m.yesPrice
                            /\ spreads.list[i].polymarketYesPrice = NULL

\* the listing supplies no price of the no side: no second outcome price (or
\* one that is zero or not a number), a missing no bid or ask, or both zero
NoSideMissing ==
    \/ /\ raw.adapter \in {"events", "direct"}
       /\ PriceAt(raw.listing.outcomePrices, 2) \in {NaN, 0}
    \/ /\ raw.adapter = "kalshi"
       /\ \/ raw.listing.no_bid = NaN \/ raw.listing.no_ask = NaN
          \/ raw.listing.no_bid = 0 /\ raw.listing.no_ask = 0

\* C31: for both adapters, when the listing supplies no price of the no side,
\* the noPrice of the ingested record is 1 - yesPrice, clamped, so the record
\* shows no internal inconsistency between yes and no above 5%.
C31_MissingNoSideDerived ==
    (NoSideMissing /\ Len(produced) = 1) =>
        /\ produced[1].noPrice = Max(10, Min(990, 1000 - produced[1].yesPrice))
        /\ Abs(produced[1].yesPrice - (1000 - produced[1].noPrice)) <= 50

\* a price the source sent is missing, or is not strictly between 0 and 1
OutOfRange(p) == p = NaN \/ p <= 0 \/ p >= 1000

\* the listing has a data-integrity anomaly in its prices
Anomalous ==
    \/ /\ raw.adapter \in {"events", "direct"}
       /\ \/ OutOfRange(PriceAt(raw.listing.outcomePrices, 1))
          \/ /\ Len(raw.listing.outcomePrices) >= 2
             /\ OutOfRange(PriceAt(raw.listing.outcomePrices, 2))
    \/ /\ raw.adapter = "kalshi"
       /\ \/ raw.listing.yes_bid = NaN \/ raw.listing.yes_ask = NaN
          \/ Plus(raw.listing.yes_bid, raw.listing.yes_ask) * 5 <= 0
          \/ Plus(raw.listing.yes_bid, raw.listing.yes_ask) * 5 >= 1000

\* C32: a listing with a data-integrity anomaly (a price outside (0,1), or a
\* missing price) is skipped: it produces no record in the adapter's result.
C32_AnomalousListingSkipped ==
    Anomalous => produced = <<>>

\* C33: writes to one market id are last-write-wins.  Every write to a
\* Polymarket id, an adapter's set or a live-feed patch, lands on the object
\* marketCache holds under the id, so that object carries the most recent
\* write: whenever no refresh is in flight, the list fetchAllMarkets serves and
\* the lookup by id give its prices for every id they serve.
C33_LastWriteWins ==
    NoRefreshInFlight =>
        \A i \in 1..Len(cachedMarkets) :
            LET id == cachedMarkets[i].id
            IN  MapHas(marketCache, id) =>
                    /\ Deref(cachedMarkets[i]).yesPrice = MapGet(marketCache, id).yesPrice
                    /\ Deref(cachedMarkets[i]).noPrice = MapGet(marketCache, id).noPrice
                    /\ getCachedMarketById(id).yesPrice = MapGet(marketCache, id).yesPrice

\* C34: the category of a record is that of the first rule, in the order
\* crypto, politics, sports, economy, tech, with a keyword in its lower-cased
\* title and description, and 'trending' when there is none, whichever adapter
\* made the record.
C34_CategoryFromTextAlone ==
    \A i \in 1..Len(produced) :
        produced[i].category = mapCategory(produced[i].title, produced[i].description)

\* the prices of a market add up to 1 (in double arithmetic 1e-17 + 1 is 1)
SumIsOne(m) ==
    \/ m.yesPrice = TINY /\ m.noPrice = 1000
    \/ m.noPrice = TINY /\ m.yesPrice = 1000
    \/ m.yesPrice # TINY /\ m.noPrice # TINY /\ m.yesPrice + m.noPrice = 1000

\* the market a trade message is about, before and after the message
TradedBefore(message) == MapGet(marketCache, slugToMarketId[message.market_slug])
TradedAfter(message) == MapGet(marketCache', slugToMarketId[message.market_slug])

\* C35: an applied trade message with price p and outcome Yes sets yesPrice = p
\* and noPrice = 1 - p; with outcome No it sets noPrice = p and yesPrice = 1 - p;
\* the two prices then add up to 1; a message whose outcome label is neither
\* Yes nor No leaves every market as it was.
C35_PricesFromOutcomeLabel ==
    [][\A s \in SocketIds, message \in TradeMessages :
          WsMessage(s, message) =>
              /\ (Applies(message) /\ message.outcome \in {"Yes", "yes"}) =>
                    /\ TradedAfter(message).yesPrice = message.price
                    /\ TradedAfter(message).noPrice = OneMinus(message.price)
                    /\ SumIsOne(TradedAfter(message))
              /\ (Applies(message) /\ message.outcome \in {"No", "no"}) =>
                    /\ TradedAfter(message).noPrice = message.price
                    /\ TradedAfter(message).yesPrice = OneMinus(message.price)
                    /\ SumIsOne(TradedAfter(message))
              /\ message.outcome \notin {"Yes", "yes", "No", "no"} =>
                    marketCache' = marketCache]_vars

\* C36: refreshes take effect in start order: lastFetchTime never decreases,
\* and a call that started before the refresh whose snapshot is being served
\* leaves that snapshot in place when it completes.
C36_RefreshesInStartOrder ==
    [][/\ lastFetchTime' >= lastFetchTime
       /\ \A r \in Requests :
             (req[r].pc # "idle" /\ req'[r].pc = "idle" /\ req[r].now < lastFetchTime) =>
                 cachedMarkets' = cachedMarkets]_vars

\* C37: a refresh in which every source fetch failed does not mark the cache
\* as fresh: the call that made it leaves lastFetchTime as it was.
C37_FailedRefreshNotFresh ==
    [][\A r \in Requests :
          ( /\ Returns(r)
            /\ lastReturn'.ev = "failed" /\ lastReturn'.dir = "failed"
            /\ lastReturn'.kl = "failed" )
          => lastFetchTime' = lastFetchTime]_vars

\* C38: in every reachable state the reconnect-attempt counter is between 0
\* and MAX_RECONNECT_ATTEMPTS (5) inclusive.
C38_AttemptsWithinBounds ==
    /\ reconnectAttempts >= 0
    /\ reconnectAttempts <= MAX_RECONNECT_ATTEMPTS

\* a connection closed when every attempt had been used: scheduleReconnect was
\* called with the counter at its maximum
C38_Witness ==
    /\ reconnectAttempts = MAX_RECONNECT_ATTEMPTS
    /\ disconnects = MAX_RECONNECT_ATTEMPTS + 1

=============================================================================
